---- MODULE Spec2Model ----
(***************************************************************************)
(* Verification model of the neo-devpack-ts compiler back end:             *)
(*   - the BigInteger byte codec (utils.ts: bigIntToByteArray,             *)
(*     byteArrayToBigInt),                                                 *)
(*   - conditional lowering (expressionProcessor.ts:                       *)
(*     makeConditionalExpression) with a tracing stack machine,            *)
(*   - the pass driver (compiler.ts: compile and its three passes),        *)
(*   - expression translation (expressionProcessor.ts: parseExpression and *)
(*     its chain reduction; builtins.ts: parseArgArray) and constant       *)
(*     evaluation (parseConstantValue, getConstantValue),                  *)
(*   - the source file front end (parseSourceFile).                        *)
(* Each part has its own specification over the shared variables; the      *)
(* variables of the other parts stay at their initial values.              *)
(***************************************************************************)
EXTENDS Integers, Sequences, FiniteSets, TLC

VARIABLES
    \* ---- integer codec ----
    origin,       \* "int": the run encodes `value`; "raw": the run decodes a given array
    value,        \* the bigint handed to bigIntToByteArray
    encoded,      \* the Uint8Array under consideration (little-endian)
    decoded,      \* the outcome of byteArrayToBigInt
    codecPc,      \* "start" -> "encoded" -> "decoded"
    \* ---- conditional lowering ----
    condition,    \* argument of makeConditionalExpression
    whenTrue,     \* argument of makeConditionalExpression
    whenFalse,    \* argument of makeConditionalExpression
    result,       \* the returned operation sequence
    depth,        \* number of makeConditionalExpression calls made so far
    nextId,       \* next unused object identity
    ip,           \* stack machine: index of the next operation, 0 = not started
    stack0,       \* stack machine: evaluation stack at the start of the run
    stack,        \* stack machine: evaluation stack
    executed,     \* stack machine: positions of `result` executed so far
    \* ---- compile ----
    project,      \* the function declarations of the source file
    passIndex,    \* position in compile's pass list
    context,      \* CompilationContext
    ranPasses,    \* passes started so far, in order
    returned,     \* CompileResults, once compile has returned
    \* ---- expression translation ----
    exprNode,      \* the expression handed to parseExpression and the constant evaluators
    chainContexts, \* the ExpressionChainContext after each reduceExpressionChain call so far
    exprResult,    \* what parseExpression returned
    constResult,   \* what parseConstantValue returned
    constValue,    \* what getConstantValue returned or threw
    argNodes,      \* the argument expressions handed to parseArgArray
    argResult,     \* what parseArgArray returned
    \* ---- source file front end ----
    sourceFile,    \* the SourceFile handed to parseSourceFile
    inDiagnostics, \* the diagnostics state parseSourceFile starts from
    parsedFile,    \* what parseSourceFile returned
    \* ---- one reduction step on its own ----
    reduceContext, \* the ExpressionChainContext handed to reduceExpressionChain
    reduceNode,    \* the node handed to reduceExpressionChain
    reduceResult,  \* the ExpressionChainContext it returned
    \* ---- callContract ----
    callArguments, \* the arguments of the call expression handed to parseArguments
    callResult,    \* what CallContractFunctionDef.parseArguments returned
    \* ---- built-in scope ----
    libraryDecls,     \* the LibraryDeclarations handed to makeGlobalScope
    scopeDiagnostics, \* the diagnostics state makeGlobalScope starts from
    scopeResult,      \* what makeGlobalScope returned or threw
    stackItemDecl,    \* the interface declaration handed to new StackItemDef
    stackItemResult,  \* the StackItemDef constructed, or the error thrown
    \* ---- parseProjectLibrary ----
    libFiles,        \* the library source files of the project, by file path
    libOptions,      \* compilerOptions: lib and types
    libDiagnostics,  \* the diagnostics state parseProjectLibrary starts from
    libPc,           \* "idle", "start", "loop", "returned"
    libSources,      \* the worklist `sources`
    libFailures,     \* `failures`
    libParsed,       \* the visited set `parsed`
    libDeclarations, \* `declarations`
    libParseLog,     \* the files handed to parseLibrarySourceFile so far, in order
    libResult        \* what parseProjectLibrary returned

codecVars == <<origin, value, encoded, decoded, codecPc>>
condVars == <<condition, whenTrue, whenFalse, result, depth, nextId, ip, stack0, stack, executed>>
compileVars == <<project, passIndex, context, ranPasses, returned>>
exprVars == <<exprNode, chainContexts, exprResult, constResult, constValue>>
argVars == <<argNodes, argResult>>
sourceVars == <<sourceFile, inDiagnostics, parsedFile>>
frontVars == <<exprVars, argVars, sourceVars>>
reduceVars == <<reduceContext, reduceNode, reduceResult>>
callVars == <<callArguments, callResult>>
scopeVars == <<libraryDecls, scopeDiagnostics, scopeResult>>
stackItemVars == <<stackItemDecl, stackItemResult>>
libraryVars == <<libFiles, libOptions, libDiagnostics, libPc, libSources, libFailures,
                 libParsed, libDeclarations, libParseLog, libResult>>
lateVars == <<reduceVars, callVars, scopeVars, stackItemVars, libraryVars>>
vars == <<codecVars, condVars, compileVars, frontVars, lateVars>>

(***************************************************************************)
(* Bounds                                                                  *)
(***************************************************************************)
MaxAbs == 300          \* every integer in -MaxAbs..MaxAbs is encoded
MaxBytes == 3          \* longest magnitude / raw array built from EdgeBytes
MaxDepth == 2          \* makeConditionalExpression calls nested into one another
MaxFuncs == 2          \* function declarations in the compiled source file
MaxWraps == 2          \* expressions nested around the innermost expression of a chain
MaxArgs == 3           \* argument expressions handed to parseArgArray
MaxDecls == 3          \* top-level declarations of the parsed source file
MaxCallArgs == 5       \* arguments of a callContract call
MaxMembers == 3        \* members of a stack-item interface
MaxFiles == 2          \* library source files

\* byte values at which carries, sign bits and all-ones patterns change
EdgeBytes == {0, 1, 2, 127, 128, 129, 254, 255}

Byte == 0..255

(***************************************************************************)
(* Integer codec                                                           *)
(***************************************************************************)
RECURSIVE Reverse(_)
Reverse(s) == IF s = <<>> THEN <<>> ELSE Append(Reverse(Tail(s)), Head(s))

\* toBuffer: hex digits of a non-negative bigint, left-padded to an even
\* count, read as bytes: the big-endian magnitude, <<0>> for zero.
RECURSIVE toBuffer(_)
toBuffer(v) == IF v < 256 THEN <<v>> ELSE Append(toBuffer(v \div 256), v % 256)

\* toBigInt: BigInt("0x" + hex): the big-endian unsigned value of the buffer.
\* (Only applied to non-empty buffers; byteArrayToBigInt guards the empty one.)
RECURSIVE toBigInt(_)
toBigInt(buffer) ==
    IF buffer = <<>> THEN 0
    ELSE toBigInt(SubSeq(buffer, 1, Len(buffer) - 1)) * 256 + buffer[Len(buffer)]

allBitsSet(buffer) == \A i \in 1..Len(buffer) : buffer[i] = 255

\* the while loop of bigIntToByteArray: buffer[i] = buffer[i] ^ 0xff
InvertBits(buffer) == [i \in 1..Len(buffer) |-> 255 - buffer[i]]

\* toBuffer(toBigInt(buffer) + 1n), computed on the bytes: add one to the
\* big-endian number, then keep the bytes toBuffer produces for that number,
\* i.e. without leading zero bytes (a single 0x00 for zero).
RECURSIVE Increment(_)
Increment(buffer) ==
    IF buffer = <<>> THEN <<1>>
    ELSE LET n == Len(buffer)
         IN  IF buffer[n] < 255 THEN [buffer EXCEPT ![n] = @ + 1]
             ELSE Append(Increment(SubSeq(buffer, 1, n - 1)), 0)

RECURSIVE StripLeadingZeros(_)
StripLeadingZeros(buffer) ==
    IF Len(buffer) > 1 /\ buffer[1] = 0 THEN StripLeadingZeros(Tail(buffer)) ELSE buffer

AddOne(buffer) == StripLeadingZeros(Increment(buffer))

\* mutant: the non-negative branch forgets the 0x00 sign padding
bigIntToByteArray_NoSignPad(v) ==
    IF v >= 0
    THEN Reverse(toBuffer(v))
    ELSE LET buffer == toBuffer(v * (-1))
             padded == IF allBitsSet(buffer) THEN <<0>> \o buffer ELSE buffer
             buffer2 == AddOne(InvertBits(padded))
         IN  Reverse(IF ~(buffer2[1] >= 128) THEN <<255>> \o buffer2 ELSE buffer2)

bigIntToByteArray(v) ==
    IF v >= 0
    THEN LET buffer == toBuffer(v)
             padded == IF buffer[1] >= 128 THEN <<0>> \o buffer ELSE buffer
         IN  Reverse(padded)
    ELSE LET buffer == toBuffer(v * (-1))
             padded == IF allBitsSet(buffer) THEN <<0>> \o buffer ELSE buffer
             inverted == InvertBits(padded)
             buffer2 == AddOne(inverted)
             signed == IF ~(buffer2[1] >= 128) THEN <<255>> \o buffer2 ELSE buffer2
         IN  Reverse(signed)

Returned(v) == [ok |-> TRUE, val |-> v, err |-> ""]
Thrown(msg) == [ok |-> FALSE, val |-> 0, err |-> msg]

\* mutant: the buffer is not reversed, the array is read big-endian
byteArrayToBigInt_NoReverse(arr) ==
    LET negativeValue == Len(arr) > 0 /\ arr[1] >= 128
    IN  IF ~negativeValue
        THEN IF arr = <<>> THEN Thrown("SyntaxError") ELSE Returned(toBigInt(arr))
        ELSE Thrown("Not Implemented")

\* mutant: the sign is tested on the reversed buffer, the value is computed
\* from the array as given, so multi-byte values come out byte-swapped
byteArrayToBigInt_Swapped(arr) ==
    LET buffer == Reverse(arr)
        negativeValue == Len(buffer) > 0 /\ buffer[1] >= 128
    IN  IF ~negativeValue
        THEN IF buffer = <<>> THEN Thrown("SyntaxError") ELSE Returned(toBigInt(arr))
        ELSE Thrown("Not Implemented")

\* mutant: the sign test is dropped and every array is read as unsigned
byteArrayToBigInt_Unsigned(arr) ==
    IF arr = <<>> THEN Thrown("SyntaxError") ELSE Returned(toBigInt(Reverse(arr)))

byteArrayToBigInt(arr) ==
    LET buffer == Reverse(arr)
        \* buffer[0] & 0x80; undefined & 0x80 is 0 for the empty buffer
        negativeValue == Len(buffer) > 0 /\ buffer[1] >= 128
    IN  IF ~negativeValue
        THEN IF buffer = <<>>
             THEN Thrown("SyntaxError")        \* BigInt("0x")
             ELSE Returned(toBigInt(buffer))
        ELSE Thrown("Not Implemented")

\* ---- inputs ----
RECURSIVE EdgeSeqs(_)
EdgeSeqs(n) ==
    IF n = 0 THEN {<<>>}
    ELSE LET shorter == EdgeSeqs(n - 1)
         IN  shorter \cup {Append(s, b) : s \in {t \in shorter : Len(t) = n - 1}, b \in EdgeBytes}

\* magnitudes above 2^31 - 1 are left out: the integers of the model checker end there
Representable(s) == Len(s) < 4 \/ (Len(s) = 4 /\ s[1] < 128)
EdgeMagnitudes == {toBigInt(s) : s \in {t \in EdgeSeqs(MaxBytes) : Representable(t)}}
Values == (-MaxAbs..MaxAbs) \cup EdgeMagnitudes \cup {-m : m \in EdgeMagnitudes}
RawArrays == EdgeSeqs(MaxBytes) \cup {<<b>> : b \in Byte}

CodecInit ==
    /\ decoded = Thrown("")
    /\ \/ origin = "int" /\ value \in Values /\ encoded = <<>> /\ codecPc = "start"
       \/ origin = "raw" /\ value = 0 /\ encoded \in RawArrays /\ codecPc = "encoded"

CodecIdle ==
    /\ origin = "int" /\ value = 0 /\ encoded = <<>> /\ codecPc = "idle"
    /\ decoded = Thrown("")

Encode ==
    /\ codecPc = "start"
    /\ encoded' = bigIntToByteArray(value)
    /\ codecPc' = "encoded"
    /\ UNCHANGED <<origin, value, decoded, condVars, compileVars, frontVars, lateVars>>

Decode ==
    /\ codecPc = "encoded"
    /\ decoded' = byteArrayToBigInt(encoded)
    /\ codecPc' = "decoded"
    /\ UNCHANGED <<origin, value, encoded, condVars, compileVars, frontVars, lateVars>>

CodecNext == Encode \/ Decode

(***************************************************************************)
(* Claims about the integer codec (checked under SpecCodec)                *)
(***************************************************************************)
\* the value of a non-empty little-endian two's-complement byte array
RECURSIVE SignedLE(_)
SignedLE(bytes) ==
    IF Len(bytes) = 1 THEN (IF bytes[1] >= 128 THEN bytes[1] - 256 ELSE bytes[1])
    ELSE bytes[1] + 256 * SignedLE(Tail(bytes))

\* the value of a little-endian byte array read as unsigned
RECURSIVE UnsignedLE(_)
UnsignedLE(bytes) == IF bytes = <<>> THEN 0 ELSE bytes[1] + 256 * UnsignedLE(Tail(bytes))

\* the magnitude of a non-negative integer, least-significant byte first
RECURSIVE MagnitudeLE(_)
MagnitudeLE(v) == IF v < 256 THEN <<v>> ELSE <<v % 256>> \o MagnitudeLE(v \div 256)

\* no removable most-significant byte
Shortest(bytes) ==
    /\ Len(bytes) >= 1
    /\ Len(bytes) > 1 =>
          LET last == bytes[Len(bytes)]
              prev == bytes[Len(bytes) - 1]
          IN  /\ ~(last = 0 /\ prev < 128)
              /\ ~(last = 255 /\ prev >= 128)

EncodedInt == origin = "int" /\ codecPc \in {"encoded", "decoded"}
DecodedInt == origin = "int" /\ codecPc = "decoded"

\* C1: for every n < 0 the encoding is the minimal two's-complement
\* little-endian encoding of n: read as a signed little-endian number it
\* equals n and it has no removable byte.
C1_NegativeEncoding ==
    (EncodedInt /\ value < 0) => (SignedLE(encoded) = value /\ Shortest(encoded))

\* C2: for every n >= 0 the encoding is the little-endian magnitude with one
\* extra 0x00 most-significant byte exactly when the magnitude's top bit is
\* set; 0 -> 00, 127 -> 7F, 128 -> 8000, 255 -> FF00.
C2_NonNegativeEncoding ==
    (EncodedInt /\ value >= 0) =>
        LET m == MagnitudeLE(value)
        IN  /\ encoded = IF m[Len(m)] >= 128 THEN Append(m, 0) ELSE m
            /\ value = 0 => encoded = <<0>>
            /\ value = 127 => encoded = <<127>>
            /\ value = 128 => encoded = <<128, 0>>
            /\ value = 255 => encoded = <<255, 0>>

C2_Witness == EncodedInt /\ value = 32768 /\ encoded = <<0, 128, 0>>

\* C3 (as claimed): for every integer n of either sign,
\* byteArrayToBigInt(bigIntToByteArray(n)) = n.
C3_RoundTrip == DecodedInt => decoded = Returned(value)

\* C3 (amended): the round trip returns n for every n >= 0; for every n < 0
\* decoding the encoding of n throws "Not Implemented".
C3_RoundTripNonNegative ==
    DecodedInt =>
        IF value >= 0 THEN decoded = Returned(value)
        ELSE decoded = Thrown("Not Implemented")

C3_Witness == DecodedInt /\ value = -129 /\ decoded = Thrown("Not Implemented")

\* C4: decoding a non-empty little-endian array whose most-significant byte
\* has its top bit clear yields the unsigned value of the bytes; in
\* particular decoding the encoding of n >= 0 yields n.
C4_DecodeNonNegative ==
    codecPc = "decoded" =>
        /\ (encoded # <<>> /\ encoded[Len(encoded)] < 128) =>
               (decoded.ok /\ decoded.val = UnsignedLE(encoded))
        /\ (origin = "int" /\ value >= 0) => (decoded.ok /\ decoded.val = value)

C4_Witness ==
    /\ codecPc = "decoded" /\ origin = "raw"
    /\ encoded = <<255, 127>> /\ decoded = Returned(32767)

\* C5: byteArrayToBigInt throws "Not Implemented", and returns no value, for
\* every array whose last (most-significant) byte has its top bit set.
C5_SignBitNotImplemented ==
    (codecPc = "decoded" /\ encoded # <<>> /\ encoded[Len(encoded)] >= 128) =>
        (~decoded.ok /\ decoded.err = "Not Implemented")

C5_Witness ==
    /\ codecPc = "decoded" /\ origin = "raw"
    /\ encoded = <<1, 128>> /\ decoded = Thrown("Not Implemented")

\* C6: for every n the encoding has no removable most-significant byte: with
\* more than one byte, the last is not 0x00 above a byte with top bit clear
\* and not 0xFF above a byte with top bit set.
C6_NoRemovableByte == EncodedInt => Shortest(encoded)

\* C29: bigIntToByteArray is injective: no two distinct integers, of the
\* same or of different sign, get the same byte encoding.
C29_Injective ==
    EncodedInt => \A m \in Values : bigIntToByteArray(m) = encoded => m = value

(***************************************************************************)
(* Conditional lowering                                                    *)
(* An Operation is an object: `id` is its identity, `target` the identity  *)
(* of the operation a jump refers to (0 when the kind has no target).      *)
(***************************************************************************)
Op(id, kind, target, val) == [id |-> id, kind |-> kind, target |-> target, val |-> val]

\* mutant: the two branches are emitted in the wrong order
makeConditionalExpression_BranchesSwapped(cond, wTrue, wFalse, fresh) ==
    cond
    \o <<Op(fresh + 2, "jumpifnot", fresh, FALSE)>>
    \o wFalse
    \o <<Op(fresh + 3, "jump", fresh + 1, FALSE)>>
    \o <<Op(fresh, "noop", 0, FALSE)>>
    \o wTrue
    \o <<Op(fresh + 1, "noop", 0, FALSE)>>

\* mutant: the jump over the false branch is left out of the sequence
makeConditionalExpression_NoJumpToEnd(cond, wTrue, wFalse, fresh) ==
    cond
    \o <<Op(fresh + 2, "jumpifnot", fresh, FALSE)>>
    \o wTrue
    \o <<Op(fresh, "noop", 0, FALSE)>>
    \o wFalse
    \o <<Op(fresh + 1, "noop", 0, FALSE)>>

\* mutant: the join target is referenced by the jump but never appended
makeConditionalExpression_NoEndTarget(cond, wTrue, wFalse, fresh) ==
    cond
    \o <<Op(fresh + 2, "jumpifnot", fresh, FALSE)>>
    \o wTrue
    \o <<Op(fresh + 3, "jump", fresh + 1, FALSE)>>
    \o <<Op(fresh, "noop", 0, FALSE)>>
    \o wFalse

makeConditionalExpression(cond, wTrue, wFalse, fresh) ==
    LET falseTarget == Op(fresh, "noop", 0, FALSE)
        endTarget == Op(fresh + 1, "noop", 0, FALSE)
    IN  cond
        \o <<Op(fresh + 2, "jumpifnot", falseTarget.id, FALSE)>>
        \o wTrue
        \o <<Op(fresh + 3, "jump", endTarget.id, FALSE)>>
        \o <<falseTarget>>
        \o wFalse
        \o <<endTarget>>

\* objects allocated by one call: two noops and two jumps
AllocatedPerCall == 4

\* operation objects that exist before the first call
LeafOps == {Op(1, "pushbool", 0, TRUE), Op(2, "pushbool", 0, FALSE), Op(3, "drop", 0, FALSE)}
LeafSeqs == {<<>>} \cup {<<op>> : op \in LeafOps}

CondInit ==
    /\ condition = <<>> /\ whenTrue = <<>> /\ whenFalse = <<>> /\ result = <<>>
    /\ depth = 0
    /\ nextId = Cardinality(LeafOps) + 1
    /\ ip = 0 /\ stack0 = <<>> /\ stack = <<>> /\ executed = {}

CondIdle == CondInit

Call(c, t, f) ==
    /\ condition' = c /\ whenTrue' = t /\ whenFalse' = f
    /\ result' = makeConditionalExpression(c, t, f, nextId)
    /\ nextId' = nextId + AllocatedPerCall
    /\ depth' = depth + 1
    /\ UNCHANGED <<ip, stack0, stack, executed, codecVars, compileVars, frontVars, lateVars>>

\* a call whose three arguments are sequences of existing leaf operations
MakeConditional ==
    /\ depth = 0
    /\ \E c \in LeafSeqs, t \in LeafSeqs, f \in LeafSeqs : Call(c, t, f)

\* a call that nests the previous result as its condition or as a branch
NestConditional ==
    /\ depth >= 1 /\ depth < MaxDepth /\ ip = 0
    /\ \E c \in LeafSeqs \cup {result}, t \in LeafSeqs \cup {result}, f \in LeafSeqs \cup {result} :
          /\ result \in {c, t, f}
          /\ Call(c, t, f)

\* ---- tracing stack machine (jumpifnot pops the condition and jumps when it
\* is false; jump is unconditional; noop does nothing) ----
Fault == -1

IndexOf(ops, id) ==
    IF \E i \in 1..Len(ops) : ops[i].id = id
    THEN CHOOSE i \in 1..Len(ops) : ops[i].id = id /\ \A j \in 1..(i - 1) : ops[j].id # id
    ELSE Fault

Pop(s) == SubSeq(s, 1, Len(s) - 1)
Top(s) == s[Len(s)]

Run ==
    /\ depth = 1 /\ ip = 0
    /\ \E s \in {<<>>, <<TRUE>>, <<FALSE>>} : stack0' = s /\ stack' = s
    /\ ip' = 1
    /\ UNCHANGED <<condition, whenTrue, whenFalse, result, depth, nextId, executed,
                   codecVars, compileVars, frontVars, lateVars>>

Step ==
    /\ ip >= 1 /\ ip <= Len(result)
    /\ LET op == result[ip]
       IN  /\ executed' = executed \cup {ip}
           /\ CASE op.kind = "pushbool" -> stack' = Append(stack, op.val) /\ ip' = ip + 1
                [] op.kind = "noop" -> stack' = stack /\ ip' = ip + 1
                [] op.kind = "drop" ->
                      IF stack = <<>> THEN stack' = stack /\ ip' = Fault
                      ELSE stack' = Pop(stack) /\ ip' = ip + 1
                [] op.kind = "jump" -> stack' = stack /\ ip' = IndexOf(result, op.target)
                [] op.kind = "jumpifnot" ->
                      IF stack = <<>> THEN stack' = stack /\ ip' = Fault
                      ELSE /\ stack' = Pop(stack)
                           /\ ip' = IF Top(stack) = FALSE
                                    THEN IndexOf(result, op.target) ELSE ip + 1
                [] op.kind = "jumpif" ->
                      IF stack = <<>> THEN stack' = stack /\ ip' = Fault
                      ELSE /\ stack' = Pop(stack)
                           /\ ip' = IF Top(stack) = TRUE
                                    THEN IndexOf(result, op.target) ELSE ip + 1
    /\ UNCHANGED <<condition, whenTrue, whenFalse, result, depth, nextId, stack0,
                   codecVars, compileVars, frontVars, lateVars>>

CondNext == MakeConditional \/ NestConditional \/ Run \/ Step


(***************************************************************************)
(* Claims about conditional lowering (checked under SpecCond/SpecCondFair) *)
(***************************************************************************)
Ids(ops) == {ops[i].id : i \in 1..Len(ops)}
JumpKinds == {"jump", "jumpif", "jumpifnot"}

\* C7: the call returns condition, jumpifnot(F), whenTrue, jump(E), F,
\* whenFalse, E, with F and E two distinct noops that occur in none of the
\* three arguments, and the arguments unchanged and in order.
C7_Layout ==
    depth >= 1 =>
        LET nc == Len(condition)
            nt == Len(whenTrue)
            nf == Len(whenFalse)
        IN  /\ Len(result) = nc + nt + nf + 4
            /\ SubSeq(result, 1, nc) = condition
            /\ SubSeq(result, nc + 2, nc + nt + 1) = whenTrue
            /\ SubSeq(result, nc + nt + 4, nc + nt + nf + 3) = whenFalse
            /\ LET jumpF == result[nc + 1]
                   jumpE == result[nc + nt + 2]
                   F == result[nc + nt + 3]
                   E == result[nc + nt + nf + 4]
               IN  /\ jumpF.kind = "jumpifnot" /\ jumpF.target = F.id
                   /\ jumpE.kind = "jump" /\ jumpE.target = E.id
                   /\ F.kind = "noop" /\ E.kind = "noop" /\ F.id # E.id
                   /\ {F.id, E.id} \cap (Ids(condition) \cup Ids(whenTrue) \cup Ids(whenFalse)) = {}

C7_Witness ==
    /\ depth = 2 /\ Len(whenTrue) = 7 /\ Len(condition) = 1 /\ Len(whenFalse) = 1
    /\ Len(result) = 13 /\ result[2].kind = "jumpifnot" /\ result[11].id = result[2].target

\* straight-line sequences that push exactly one value and consume nothing
Delta(ops, k) ==
    Cardinality({i \in 1..k : ops[i].kind = "pushbool"})
    - Cardinality({i \in 1..k : ops[i].kind = "drop"})

PushesOne(ops) ==
    /\ \A i \in 1..Len(ops) : ops[i].kind \in {"pushbool", "drop", "noop"}
    /\ \A k \in 1..Len(ops) : Delta(ops, k) >= 0
    /\ Delta(ops, Len(ops)) = 1

RECURSIVE EvalStraight(_, _)
EvalStraight(ops, stk) ==
    IF ops = <<>> THEN stk
    ELSE EvalStraight(Tail(ops),
             CASE Head(ops).kind = "pushbool" -> Append(stk, Head(ops).val)
               [] Head(ops).kind = "drop" -> Pop(stk)
               [] OTHER -> stk)

ConditionValue == Top(EvalStraight(condition, stack0))
TruePositions == (Len(condition) + 2)..(Len(condition) + Len(whenTrue) + 1)
FalsePositions ==
    (Len(condition) + Len(whenTrue) + 4)..(Len(condition) + Len(whenTrue) + Len(whenFalse) + 3)
Halted == ip = Len(result) + 1

Executing == depth = 1 /\ ip # 0 /\ PushesOne(condition) /\ PushesOne(whenTrue) /\ PushesOne(whenFalse)

C8_Safety ==
    Executing =>
        /\ ip \in 1..(Len(result) + 1)
        /\ IF ConditionValue THEN executed \cap FalsePositions = {}
           ELSE executed \cap TruePositions = {}
        /\ Halted =>
              /\ Len(stack) = Len(stack0) + 1
              /\ Len(result) \in executed
              /\ IF ConditionValue THEN TruePositions \subseteq executed
                 ELSE FalsePositions \subseteq executed

\* C8: executing the sequence built from straight-line arguments that each
\* push one value runs exactly the whenTrue operations when the condition is
\* true and exactly the whenFalse operations when it is false, and in both
\* cases the run reaches the end through the join target with one value more
\* on the stack than at the start.
C8_ExactlyOneBranch == [](C8_Safety) /\ ((Executing /\ ip = 1) ~> (Executing /\ Halted))

C8_Witness ==
    /\ Executing /\ Halted /\ ~ConditionValue /\ stack0 = <<TRUE>>
    /\ whenTrue # whenFalse /\ executed = {1, 2, 5, 6, 7}

\* every jump's target occurs exactly once in the sequence, after the jump
TargetsOnceLater(ops) ==
    \A i \in 1..Len(ops) :
        ops[i].kind \in JumpKinds =>
            /\ Cardinality({j \in 1..Len(ops) : ops[j].id = ops[i].target}) = 1
            /\ \E j \in (i + 1)..Len(ops) : ops[j].id = ops[i].target

NoSharedObjects ==
    /\ Ids(condition) \cap Ids(whenTrue) = {}
    /\ Ids(condition) \cap Ids(whenFalse) = {}
    /\ Ids(whenTrue) \cap Ids(whenFalse) = {}

ArgumentsWellFormed ==
    /\ TargetsOnceLater(condition) /\ TargetsOnceLater(whenTrue) /\ TargetsOnceLater(whenFalse)
    /\ NoSharedObjects

\* C9: in every sequence the call produces, also when a previous result is
\* nested as condition or branch, every jump's target occurs exactly once
\* and after the jump, provided the arguments satisfy the same and share no
\* operation objects.
C9_TargetsOnceLater == (depth >= 1 /\ ArgumentsWellFormed) => TargetsOnceLater(result)

C9_Witness ==
    /\ depth = 2 /\ ArgumentsWellFormed /\ Len(condition) = 7 /\ Len(whenTrue) = 1
    /\ TargetsOnceLater(result)
    /\ Cardinality({i \in 1..Len(result) : result[i].kind \in JumpKinds}) = 4

(***************************************************************************)
(* compile                                                                 *)
(***************************************************************************)
\* parameter lists of a declaration: the ContractTypeKind of each parameter's
\* type; "Unrecognized" is a kind convertContractType has no case for
ParamLists == {<<>>, <<"Primitive">>, <<"Unrecognized">>}
BodySizes == {0, 1, 2}
\* the number of local variables a function body declares
LocalCounts == {0, 1}

\* A function declaration of the source file, as the passes read it:
\* getName, getExportKeyword, getParameters(), isVoidLike(getReturnType()),
\* and what translating its body does (`size` instructions for a body that
\* declares `locals` local variables, or a CompileError). An empty body
\* yields no instruction; a body that declares a variable yields at least one.
NamedDecls ==
    [named : {TRUE}, exported : BOOLEAN, params : ParamLists, isVoid : BOOLEAN,
     body : {"ok"}, size : BodySizes, locals : {0}]
    \cup
    [named : {TRUE}, exported : BOOLEAN, params : ParamLists, isVoid : BOOLEAN,
     body : {"ok"}, size : BodySizes \ {0}, locals : LocalCounts \ {0}]
    \cup
    [named : {TRUE}, exported : BOOLEAN, params : ParamLists, isVoid : BOOLEAN,
     body : {"throws"}, size : {1}, locals : {0}]
UnnamedDecl ==
    [named |-> FALSE, exported |-> TRUE, params |-> <<>>, isVoid |-> TRUE, body |-> "ok",
     size |-> 1, locals |-> 0]
FuncDecls == NamedDecls \cup {UnnamedDecl}

RECURSIVE SeqsUpTo(_, _)
SeqsUpTo(S, n) ==
    IF n = 0 THEN {<<>>}
    ELSE LET shorter == SeqsUpTo(S, n - 1)
         IN  shorter \cup {Append(q, x) : q \in {r \in shorter : Len(r) = n - 1}, x \in S}

Projects(n) == SeqsUpTo(FuncDecls, n)

NoArtifacts == [present |-> FALSE, script |-> <<>>, manifest |-> <<>>, debugInfo |-> <<>>]
NoException == [thrown |-> FALSE, isError |-> FALSE, message |-> "", node |-> 0]
CompileError(message, node) == [thrown |-> TRUE, isError |-> TRUE, message |-> message, node |-> node]
\* new Error(message): an Error that is no CompileError carries no node
PlainError(message) == [thrown |-> TRUE, isError |-> TRUE, message |-> message, node |-> 0]
NotReturned == [done |-> FALSE, diagnostics |-> <<>>, artifacts |-> NoArtifacts]

\* the catch block of compile: one error diagnostic per exception
ToDiagnostic(error) ==
    [category |-> "Error",
     messageText |-> IF error.isError THEN error.message ELSE "unknown error",
     node |-> error.node]

\* context.diagnostics?.some(d => d.category == Error)
HasError(diagnostics) == \E i \in 1..Len(diagnostics) : diagnostics[i].category = "Error"

Instr(op, a, b) == [op |-> op, a |-> a, b |-> b]

resolveDeclarationsPass(ctx) ==
    [context |-> [ctx EXCEPT !.builtins = TRUE], exception |-> NoException]

\* convertStatement(body, opCtx): appends the body's instructions to the
\* builder or throws a CompileError
convertStatement(decl, name) ==
    IF decl.body = "ok"
    THEN [emitted |-> [k \in 1..decl.size |-> Instr("BODY", name, k)], exception |-> NoException]
    ELSE [emitted |-> <<>>, exception |-> CompileError("convert failed", name)]

\* the forEachChild callback of processFunctionsPass for the declaration at
\* position `name`; the OperationContext is pushed before the body is converted
ProcessFunction(decl, name) ==
    LET paramCount == Len(decl.params)
        localCount == 0
        initslot == IF localCount > 0 \/ paramCount > 0
                    THEN <<Instr("INITSLOT", localCount, paramCount)>> ELSE <<>>
        converted == convertStatement(decl, name)
    IN  [opCtx |-> [name |-> name, isPublic |-> decl.exported, node |-> decl,
                    builder |-> initslot \o converted.emitted],
         exception |-> converted.exception]

RECURSIVE ProcessFrom(_, _, _)
ProcessFrom(decls, i, ctx) ==
    IF i > Len(decls) THEN [context |-> ctx, exception |-> NoException]
    ELSE IF ~decls[i].named THEN ProcessFrom(decls, i + 1, ctx)
    ELSE LET done == ProcessFunction(decls[i], i)
             ctx1 == [ctx EXCEPT !.operations = Append(@, done.opCtx)]
         IN  IF done.exception.thrown
             THEN [context |-> ctx1, exception |-> done.exception]
             ELSE ProcessFrom(decls, i + 1, ctx1)

processFunctionsPass(ctx) == ProcessFrom(project, 1, ctx)

\* ScriptBuilder.compile: one opcode byte per instruction, INITSLOT carries
\* two operand bytes; each byte is tagged with its method and position
InstrSize(ins) == IF ins.op = "INITSLOT" THEN 3 ELSE 1

RECURSIVE ScriptLength(_)
ScriptLength(builder) ==
    IF builder = <<>> THEN 0 ELSE InstrSize(Head(builder)) + ScriptLength(Tail(builder))

CompileScript(op) == [k \in 1..ScriptLength(op.builder) |-> <<op.name, k>>]

\* convertContractType: the ContractParamType of a type, or a thrown Error
\* for a kind the switch has no case for
convertContractType(kind) ==
    IF kind = "Unrecognized"
    THEN [type |-> "", exception |-> PlainError("Unrecognized ContractTypeKind")]
    ELSE [type |-> "Integer", exception |-> NoException]

\* the first exception thrown while the parameter types are converted in order
RECURSIVE FirstException(_)
FirstException(kinds) ==
    IF kinds = <<>> THEN NoException
    ELSE IF convertContractType(Head(kinds)).exception.thrown
         THEN convertContractType(Head(kinds)).exception
         ELSE FirstException(Tail(kinds))

\* mutant: a function without the export keyword gets a method definition too
toMethodDef_IgnoresExport(node, name, offset) ==
    IF FirstException(node.params).thrown
    THEN [def |-> <<>>, exception |-> FirstException(node.params)]
    ELSE [def |-> <<[name |-> name, offset |-> offset,
                     parameters |-> [i \in 1..Len(node.params) |->
                                        convertContractType(node.params[i]).type],
                     returnType |-> IF node.isVoid THEN "Void" ELSE "Any"]>>,
          exception |-> NoException]

\* mutant: the return type of a void function is converted like any other
toMethodDef_VoidConverted(node, name, offset) ==
    IF ~node.exported THEN [def |-> <<>>, exception |-> NoException]
    ELSE IF FirstException(node.params).thrown
         THEN [def |-> <<>>, exception |-> FirstException(node.params)]
         ELSE [def |-> <<[name |-> name, offset |-> offset,
                          parameters |-> [i \in 1..Len(node.params) |->
                                             convertContractType(node.params[i]).type],
                          returnType |-> "Any"]>>,
               exception |-> NoException]

\* `def` is empty for a function without the export keyword (undefined);
\* returnType is sc.ContractParamType.Void for a void function
toMethodDef(node, name, offset) ==
    IF ~node.exported THEN [def |-> <<>>, exception |-> NoException]
    ELSE IF FirstException(node.params).thrown
         THEN [def |-> <<>>, exception |-> FirstException(node.params)]
         ELSE [def |-> <<[name |-> name, offset |-> offset,
                          parameters |-> [i \in 1..Len(node.params) |->
                                             convertContractType(node.params[i]).type],
                          returnType |-> IF node.isVoid THEN "Void" ELSE "Any"]>>,
               exception |-> NoException]

\* mutant: the end of the range is the offset after the method's last byte
toDebugInfoMethod_ExclusiveEnd(op, offset, length) ==
    [name |-> op.name,
     range |-> [start |-> offset, end |-> offset + length],
     parameters |-> op.node.params,
     returnType |-> IF op.node.isVoid THEN "undefined" ELSE "Any"]

toDebugInfoMethod(op, offset, length) ==
    [name |-> op.name,
     range |-> [start |-> offset, end |-> offset + length - 1],
     parameters |-> op.node.params,
     returnType |-> IF op.node.isVoid THEN "undefined" ELSE "Any"]

\* mutant: every method is placed at the offset of the first
RECURSIVE CollectFrom_NoRunningOffset(_, _, _)
CollectFrom_NoRunningOffset(operations, i, acc) ==
    IF i > Len(operations) THEN [artifacts |-> acc, exception |-> NoException]
    ELSE LET op == operations[i]
             script == CompileScript(op)
             methodDef == toMethodDef(op.node, op.name, 0)
             debug == toDebugInfoMethod(op, 0, Len(script))
         IN  IF methodDef.exception.thrown
             THEN [artifacts |-> acc, exception |-> methodDef.exception]
             ELSE CollectFrom_NoRunningOffset(operations, i + 1,
                      [present |-> TRUE,
                       script |-> acc.script \o script,
                       manifest |-> acc.manifest \o methodDef.def,
                       debugInfo |-> Append(acc.debugInfo, debug)])

\* the loop of collectArtifactsPass over context.operations; `acc` holds
\* fullScript and the methods collected so far
RECURSIVE CollectFrom(_, _, _)
CollectFrom(operations, i, acc) ==
    IF i > Len(operations) THEN [artifacts |-> acc, exception |-> NoException]
    ELSE LET op == operations[i]
             script == CompileScript(op)
             methodDef == toMethodDef(op.node, op.name, Len(acc.script))
             debug == toDebugInfoMethod(op, Len(acc.script), Len(script))
         IN  IF methodDef.exception.thrown
             THEN [artifacts |-> acc, exception |-> methodDef.exception]
             ELSE CollectFrom(operations, i + 1,
                      [present |-> TRUE,
                       script |-> acc.script \o script,
                       manifest |-> acc.manifest \o methodDef.def,
                       debugInfo |-> Append(acc.debugInfo, debug)])

\* context.artifacts is assigned by the last statement only
collectArtifactsPass(ctx) ==
    LET collected == CollectFrom(ctx.operations, 1, [NoArtifacts EXCEPT !.present = TRUE])
    IN  IF collected.exception.thrown
        THEN [context |-> ctx, exception |-> collected.exception]
        ELSE [context |-> [ctx EXCEPT !.artifacts = collected.artifacts],
              exception |-> NoException]

\* control after one iteration of compile's for loop: break on an error diagnostic
PassCount == 3
LoopExit == PassCount + 1

\* mutant: the loop never breaks
NextPass_NoBreak(index, diagnostics) == index + 1

NextPass(index, diagnostics) == IF HasError(diagnostics) THEN LoopExit ELSE index + 1

\* try { pass(context) } catch (error) { context.diagnostics.push(...) }
AfterPass(outcome) ==
    IF outcome.exception.thrown
    THEN [outcome.context EXCEPT !.diagnostics = Append(@, ToDiagnostic(outcome.exception))]
    ELSE outcome.context

InitialContext ==
    [diagnostics |-> <<>>, builtins |-> FALSE, operations |-> <<>>, artifacts |-> NoArtifacts]

CompileInit ==
    /\ project \in Projects(MaxFuncs)
    /\ passIndex = 1
    /\ context = InitialContext
    /\ ranPasses = <<>>
    /\ returned = NotReturned

CompileIdle ==
    /\ project = <<>>
    /\ passIndex = 0
    /\ context = InitialContext
    /\ ranPasses = <<>>
    /\ returned = NotReturned

Iterate(name, outcome) ==
    LET ctx == AfterPass(outcome)
    IN  /\ context' = ctx
        /\ passIndex' = NextPass(passIndex, ctx.diagnostics)
        /\ ranPasses' = Append(ranPasses, name)
        /\ UNCHANGED <<project, returned, codecVars, condVars, frontVars, lateVars>>

ResolveDeclarations ==
    /\ passIndex = 1
    /\ Iterate("resolveDeclarationsPass", resolveDeclarationsPass(context))

ProcessFunctions ==
    /\ passIndex = 2
    /\ Iterate("processFunctionsPass", processFunctionsPass(context))

CollectArtifacts ==
    /\ passIndex = 3
    /\ Iterate("collectArtifactsPass", collectArtifactsPass(context))

Return ==
    /\ passIndex = LoopExit
    /\ ~returned.done
    /\ returned' = [done |-> TRUE, diagnostics |-> context.diagnostics,
                    artifacts |-> context.artifacts]
    /\ UNCHANGED <<project, passIndex, context, ranPasses, codecVars, condVars, frontVars, lateVars>>

CompileNext == ResolveDeclarations \/ ProcessFunctions \/ CollectArtifacts \/ Return

(***************************************************************************)
(* Claims about compile (checked under SpecCompile)                        *)
(***************************************************************************)
PassOrder == <<"resolveDeclarationsPass", "processFunctionsPass", "collectArtifactsPass">>

\* the body of some named function of the project fails to translate
SomeBodyThrows == \E i \in 1..Len(project) : project[i].named /\ project[i].body = "throws"

\* some exported function that processFunctionsPass registers has a parameter
\* whose type convertContractType rejects
SomeTypeRejected ==
    \E i \in 1..Len(project) :
        /\ project[i].named /\ project[i].exported
        /\ \E k \in 1..Len(project[i].params) : project[i].params[k] = "Unrecognized"

ErrorCount(diagnostics) ==
    Cardinality({i \in 1..Len(diagnostics) : diagnostics[i].category = "Error"})

\* C10: the passes run in the order resolve-declarations, process-functions,
\* collect-artifacts; an exception thrown by a pass becomes one error
\* diagnostic; once the diagnostics contain an error no later pass runs; and
\* a result with artifacts has no error diagnostic.
C10_PassesAndArtifacts ==
    /\ Len(ranPasses) <= PassCount
    /\ ranPasses = SubSeq(PassOrder, 1, Len(ranPasses))
    /\ ErrorCount(context.diagnostics) =
          IF Len(ranPasses) >= 2 /\ SomeBodyThrows THEN 1
          ELSE IF Len(ranPasses) = 3 /\ SomeTypeRejected THEN 1
          ELSE 0
    /\ Len(context.diagnostics) = ErrorCount(context.diagnostics)
    /\ HasError(context.diagnostics) =>
          /\ passIndex = LoopExit
          /\ SomeBodyThrows => ranPasses = SubSeq(PassOrder, 1, 2)
    /\ context.artifacts.present => ~HasError(context.diagnostics)
    /\ returned.done =>
          /\ returned.diagnostics = context.diagnostics
          /\ returned.artifacts = context.artifacts
          /\ returned.artifacts.present => ~HasError(returned.diagnostics)
          /\ returned.artifacts.present => ranPasses = PassOrder

C10_Witness ==
    /\ returned.done /\ HasError(returned.diagnostics) /\ ~returned.artifacts.present
    /\ ranPasses = SubSeq(PassOrder, 1, 2) /\ Len(project) = 2 /\ project[2].body = "throws"

\* the declarations processFunctionsPass registered, by position in the project
Registered == {context.operations[k].name : k \in 1..Len(context.operations)}

\* C11: in processFunctionsPass a function whose body fails to translate is
\* recorded as a diagnostic and does not abort the remaining functions: every
\* named function declaration after the failing one is still translated and
\* registered as an operation.
C11_FailureDoesNotAbort ==
    Len(ranPasses) >= 2 =>
        /\ SomeBodyThrows => HasError(context.diagnostics)
        /\ \A i \in 1..Len(project) : project[i].named => i \in Registered

\* the byte length of the script of the k-th registered method
MethodLength(k) == ScriptLength(context.operations[k].builder)

\* the sum of the script lengths of the registered methods before the k-th
RECURSIVE LengthBefore(_)
LengthBefore(k) == IF k <= 1 THEN 0 ELSE LengthBefore(k - 1) + MethodLength(k - 1)

\* C17: collectArtifactsPass places the methods at running offsets: the
\* offset of method k is the sum of the script lengths of the methods before
\* it, the final script is the concatenation of the method scripts in order,
\* and its length is the sum of their lengths.
C17_RunningOffsets ==
    context.artifacts.present =>
        LET art == context.artifacts
            n == Len(context.operations)
        IN  /\ Len(art.debugInfo) = n
            /\ Len(art.script) = LengthBefore(n + 1)
            /\ \A k \in 1..n :
                   /\ art.debugInfo[k].name = context.operations[k].name
                   /\ art.debugInfo[k].range.start = LengthBefore(k)
                   /\ art.debugInfo[k].range.end = LengthBefore(k) + MethodLength(k) - 1
                   /\ \A b \in 1..MethodLength(k) :
                          art.script[LengthBefore(k) + b] = <<context.operations[k].name, b>>
                   /\ \A e \in 1..Len(art.manifest) :
                          art.manifest[e].name = context.operations[k].name
                              => art.manifest[e].offset = LengthBefore(k)

C17_Witness ==
    /\ context.artifacts.present /\ Len(context.operations) = 2
    /\ MethodLength(1) = 4 /\ MethodLength(2) = 2
    /\ context.artifacts.debugInfo[2].range.start = 4
    /\ Len(context.artifacts.script) = 6
    /\ Len(context.artifacts.manifest) = 2 /\ context.artifacts.manifest[2].offset = 4

\* the debug-info range of the k-th method
Range(k) == context.artifacts.debugInfo[k].range

ExportedOperations == SelectSeq(context.operations, LAMBDA op : op.node.exported)

VoidManifestEntries ==
    {e \in 1..Len(context.artifacts.manifest) :
        \E k \in 1..Len(context.operations) :
            /\ context.operations[k].name = context.artifacts.manifest[e].name
            /\ context.operations[k].node.isVoid}

Node(kind, whole, half, name, expression) ==
    [kind |-> kind, value |-> whole, half |-> half, name |-> name, expression |-> expression]

NoNode == Node("", 0, 0, "", <<>>)

Leaves ==
    {Node("BigIntLiteral", 7, 0, "", <<>>),
     Node("TrueKeyword", 0, 0, "", <<>>),
     Node("FalseKeyword", 0, 0, "", <<>>),
     Node("NullKeyword", 0, 0, "", <<>>),
     Node("StringLiteral", 0, 0, "s", <<>>),
     Node("ThisKeyword", 0, 0, "", <<>>)}
    \cup {Node("NumericLiteral", w, h, "", <<>>) : w \in {0, 2}, h \in {0, 1}}
    \cup {Node("Identifier", 0, 0, n, <<>>) : n \in {"", "unbound", "noload", "badload", "x"}}

\* kinds of expression that have a sub-expression
ExpressionedKinds == {"PropertyAccessExpression", "CallExpression"}

RECURSIVE Expressions(_)
Expressions(wraps) ==
    IF wraps = 0 THEN Leaves
    ELSE LET inner == Expressions(wraps - 1)
         IN  inner \cup {Node(k, 0, 0, "", <<e>>) : k \in ExpressionedKinds, e \in inner}

\* Either: E.left(e), E.right(a) / E.of(a)
NoParseError == [message |-> "", node |-> NoNode]
Left(e) == [isLeft |-> TRUE, left |-> e, right |-> <<>>]
Right(a) == [isLeft |-> FALSE, left |-> NoParseError, right |-> a]

makeParseError(node, message) == [message |-> message, node |-> node]

\* node.getLiteralValue() of a NumericLiteral, Number.isInteger and BigInt
\* of a number that is an integer
getLiteralValue(node) == [whole |-> node.value, half |-> node.half]
NumberIsInteger(literal) == literal.half = 0
BigIntOf(literal) == literal.whole

pushInt(n) == Op(0, "pushint", 0, n)
pushString(text) == Op(0, "pushdata", 0, text)

\* a compile-time object: getLoadOps is undefined, returns an error, or
\* returns load operations
Cto(symbol, getLoadOps, loadOps) ==
    [symbol |-> symbol, getLoadOps |-> getLoadOps, loadOps |-> loadOps]

\* the scope the expression is translated in: symbol name -> compile-time object
GlobalScope ==
    [n \in {"noload", "badload", "x"} |->
        CASE n = "noload" -> Cto(n, "undefined", <<>>)
          [] n = "badload" -> Cto(n, "left", <<>>)
          [] n = "x" -> Cto(n, "right", <<Op(0, "loadstatic", 0, 0), Op(0, "pickitem", 0, 0)>>)]

\* resolve(scope)(symbol): an Option, here a sequence of length 0 or 1
resolve(scope, symbol) == IF symbol \in DOMAIN scope THEN <<scope[symbol]>> ELSE <<>>

parseSymbol(node) ==
    IF node.name = "" THEN Left(makeParseError(node, "invalid symbol")) ELSE Right(node.name)

\* cto.getLoadOps(scope)(node)
getLoadOps(cto, scope, node) ==
    IF cto.getLoadOps = "right" THEN Right(cto.loadOps)
    ELSE Left(makeParseError(node, "cannot load"))

reduceBigIntLitera(ctx, node) == [ctx EXCEPT !.ops = Append(@, pushInt(node.value))]

reduceBooleanLiteral(ctx, node) ==
    [ctx EXCEPT !.ops = Append(@, Op(0, "pushbool", 0, node.kind = "TrueKeyword"))]

reduceNullLiteral(ctx, node) == [ctx EXCEPT !.ops = Append(@, Op(0, "pushnull", 0, FALSE))]

\* mutant: the fraction of the literal is dropped without an error
reduceNumericLiteral_Truncates(ctx, node) ==
    [ctx EXCEPT !.ops = Append(@, pushInt(getLiteralValue(node).whole))]

reduceNumericLiteral(ctx, node) ==
    LET literal == getLiteralValue(node)
    IN  IF NumberIsInteger(literal)
        THEN [ctx EXCEPT !.ops = Append(@, pushInt(BigIntOf(literal)))]
        ELSE [ctx EXCEPT !.error =
                 <<makeParseError(node, "invalid non-integer numeric literal")>>]

reduceStringLiteral(ctx, node) == [ctx EXCEPT !.ops = Append(@, pushString(node.name))]

\* mutant: an object without getLoadOps is accepted with no load operations
reduceIdentifier_NoLoadCheck(ctx, node) ==
    LET symbol == parseSymbol(node)
        found == IF symbol.isLeft THEN <<>> ELSE resolve(ctx.scope, symbol.right)
    IN  IF symbol.isLeft THEN [ctx EXCEPT !.error = <<symbol.left>>]
        ELSE IF found = <<>>
        THEN [ctx EXCEPT !.error = <<makeParseError(node, "Failed to resolve identifier")>>]
        ELSE [ctx EXCEPT !.cto = found, !.ops = found[1].loadOps \o ctx.ops]

reduceIdentifier(ctx, node) ==
    LET symbol == parseSymbol(node)
        cto == IF symbol.isLeft THEN symbol
               ELSE LET found == resolve(ctx.scope, symbol.right)
                    IN  IF found = <<>>
                        THEN Left(makeParseError(node, "Failed to resolve identifier"))
                        ELSE Right(found[1])
        loadOps == IF cto.isLeft THEN cto
                   ELSE IF cto.right.getLoadOps # "undefined"
                        THEN getLoadOps(cto.right, ctx.scope, node)
                        ELSE Left(makeParseError(node, "does not support load operations"))
    IN  IF loadOps.isLeft
        THEN [ctx EXCEPT !.error = <<loadOps.left>>]
        \* ROA.concat(context.ops)(loadOps): loadOps followed by context.ops
        ELSE [ctx EXCEPT !.cto = <<cto.right>>, !.ops = loadOps.right \o ctx.ops]

\* mutant: a step runs although an earlier step recorded an error
reduceExpressionChain_NoErrorCheck(ctx, node) ==
    CASE node.kind = "BigIntLiteral" -> reduceBigIntLitera(ctx, node)
      [] node.kind = "FalseKeyword" -> reduceBooleanLiteral(ctx, node)
      [] node.kind = "Identifier" -> reduceIdentifier(ctx, node)
      [] node.kind = "NullKeyword" -> reduceNullLiteral(ctx, node)
      [] node.kind = "NumericLiteral" -> reduceNumericLiteral(ctx, node)
      [] node.kind = "StringLiteral" -> reduceStringLiteral(ctx, node)
      [] node.kind = "TrueKeyword" -> reduceBooleanLiteral(ctx, node)
      [] OTHER -> [ctx EXCEPT !.error = <<makeParseError(node, "not implemented")>>]

reduceExpressionChain(ctx, node) ==
    IF ctx.error # <<>> THEN ctx
    ELSE CASE node.kind = "BigIntLiteral" -> reduceBigIntLitera(ctx, node)
           [] node.kind = "FalseKeyword" -> reduceBooleanLiteral(ctx, node)
           [] node.kind = "Identifier" -> reduceIdentifier(ctx, node)
           [] node.kind = "NullKeyword" -> reduceNullLiteral(ctx, node)
           [] node.kind = "NumericLiteral" -> reduceNumericLiteral(ctx, node)
           [] node.kind = "StringLiteral" -> reduceStringLiteral(ctx, node)
           [] node.kind = "TrueKeyword" -> reduceBooleanLiteral(ctx, node)
           [] OTHER -> [ctx EXCEPT !.error = <<makeParseError(node, "not implemented")>>]

\* TS.getExpression: the sub-expression of a node, if it has one
getExpression(node) == node.expression

\* makeChain: the innermost expression first, the node itself last
RECURSIVE makeChain(_)
makeChain(chain) ==
    IF getExpression(Head(chain)) = <<>> THEN chain
    ELSE makeChain(<<getExpression(Head(chain))[1]>> \o chain)

makeExpressionChain(node) == makeChain(<<node>>)

\* the context parseExpression starts the reduction from; endTarget is a
\* fresh noop object
InitialChainContext(scope) ==
    [scope |-> scope, endTarget |-> Op(1, "noop", 0, FALSE), ops |-> <<>>,
     cto |-> <<>>, error |-> <<>>]

isJumpTargetOp(op) == op.kind \in {"jump", "jumpif", "jumpifnot"}

\* the part of parseExpression after the reduction
FinishExpression(initial, final) ==
    IF final.error # <<>> THEN Left(final.error[1])
    ELSE LET hasEndJumps ==
                 \E i \in 1..Len(final.ops) :
                     isJumpTargetOp(final.ops[i]) /\ final.ops[i].target = initial.endTarget.id
         IN  Right(IF hasEndJumps THEN Append(final.ops, initial.endTarget) ELSE final.ops)

\* ROA.reduce(context, reduceExpressionChain)(chain)
RECURSIVE ReduceChain(_, _)
ReduceChain(ctx, chain) ==
    IF chain = <<>> THEN ctx
    ELSE ReduceChain(reduceExpressionChain(ctx, Head(chain)), Tail(chain))

parseExpression(scope, node) ==
    FinishExpression(InitialChainContext(scope),
                     ReduceChain(InitialChainContext(scope), makeExpressionChain(node)))

\* a ConstantValue: bigint | boolean | Uint8Array | null
Const(type, val) == [type |-> type, val |-> val]

parseConstantValue(node) ==
    CASE node.kind = "NullKeyword" -> Right(Const("null", 0))
      [] node.kind = "FalseKeyword" -> Right(Const("boolean", FALSE))
      [] node.kind = "TrueKeyword" -> Right(Const("boolean", TRUE))
      [] node.kind = "BigIntLiteral" -> Right(Const("bigint", node.value))
      [] node.kind = "NumericLiteral" ->
            IF NumberIsInteger(getLiteralValue(node))
            THEN Right(Const("bigint", BigIntOf(getLiteralValue(node))))
            ELSE Left(makeParseError(node, "invalid non-integer numeric literal"))
      [] node.kind = "StringLiteral" -> Right(Const("Uint8Array", node.name))
      [] OTHER -> Left(makeParseError(node, "Unsupported const type"))

\* getConstantValue returns the value or throws a CompileError
getConstantValue(node) ==
    CASE node.kind = "NullKeyword" -> [value |-> <<Const("null", 0)>>, exception |-> NoException]
      [] node.kind = "BigIntLiteral" ->
            [value |-> <<Const("bigint", node.value)>>, exception |-> NoException]
      [] node.kind = "NumericLiteral" ->
            IF ~NumberIsInteger(getLiteralValue(node))
            THEN [value |-> <<>>,
                  exception |-> CompileError("invalid non-integer numeric literal", node)]
            ELSE [value |-> <<Const("bigint", BigIntOf(getLiteralValue(node)))>>,
                  exception |-> NoException]
      [] node.kind = "FalseKeyword" ->
            [value |-> <<Const("boolean", FALSE)>>, exception |-> NoException]
      [] node.kind = "TrueKeyword" ->
            [value |-> <<Const("boolean", TRUE)>>, exception |-> NoException]
      [] node.kind = "StringLiteral" ->
            [value |-> <<Const("Uint8Array", node.name)>>, exception |-> NoException]
      [] OTHER -> [value |-> <<>>, exception |-> CompileError("Unsupported const type", node)]

NotCalled == [called |-> FALSE, returned |-> <<>>]
Called(r) == [called |-> TRUE, returned |-> <<r>>]

ExprInit ==
    /\ exprNode \in Expressions(MaxWraps)
    /\ chainContexts = <<>>
    /\ exprResult = NotCalled
    /\ constResult = NotCalled
    /\ constValue = NotCalled

ExprIdle ==
    /\ exprNode = NoNode
    /\ chainContexts = <<>>
    /\ exprResult = NotCalled
    /\ constResult = NotCalled
    /\ constValue = NotCalled

\* the context handed to the next reduceExpressionChain call
CurrentContext ==
    IF chainContexts = <<>> THEN InitialChainContext(GlobalScope)
    ELSE chainContexts[Len(chainContexts)]

\* one reduceExpressionChain call of the reduction in parseExpression
ReduceStep ==
    /\ exprNode # NoNode
    /\ Len(chainContexts) < Len(makeExpressionChain(exprNode))
    /\ chainContexts' =
          Append(chainContexts,
                 reduceExpressionChain(CurrentContext,
                     makeExpressionChain(exprNode)[Len(chainContexts) + 1]))
    /\ UNCHANGED <<exprNode, exprResult, constResult, constValue,
                   codecVars, condVars, compileVars, argVars, sourceVars, lateVars>>

ParseExpressionReturn ==
    /\ exprNode # NoNode
    /\ Len(chainContexts) = Len(makeExpressionChain(exprNode))
    /\ ~exprResult.called
    /\ exprResult' = Called(FinishExpression(InitialChainContext(GlobalScope), CurrentContext))
    /\ UNCHANGED <<exprNode, chainContexts, constResult, constValue,
                   codecVars, condVars, compileVars, argVars, sourceVars, lateVars>>

ParseConstantValue ==
    /\ exprNode # NoNode
    /\ ~constResult.called
    /\ constResult' = Called(parseConstantValue(exprNode))
    /\ UNCHANGED <<exprNode, chainContexts, exprResult, constValue,
                   codecVars, condVars, compileVars, argVars, sourceVars, lateVars>>

GetConstantValue ==
    /\ exprNode # NoNode
    /\ ~constValue.called
    /\ constValue' = Called(getConstantValue(exprNode))
    /\ UNCHANGED <<exprNode, chainContexts, exprResult, constResult,
                   codecVars, condVars, compileVars, argVars, sourceVars, lateVars>>

ExprNext == ReduceStep \/ ParseExpressionReturn \/ ParseConstantValue \/ GetConstantValue

(***************************************************************************)
(* parseArgArray                                                           *)
(***************************************************************************)
\* the argument expressions of a call: every leaf, and a call expression
ArgExpressions == Leaves \cup {Node("CallExpression", 0, 0, "", <<Node("TrueKeyword", 0, 0, "", <<>>)>>)}

\* ROA.sequence(E.Applicative): the first Left in order, or the Right values
RECURSIVE SequenceFrom(_, _, _)
SequenceFrom(eithers, i, acc) ==
    IF i > Len(eithers) THEN Right(acc)
    ELSE IF eithers[i].isLeft THEN eithers[i]
         ELSE SequenceFrom(eithers, i + 1, Append(acc, eithers[i].right))

sequence(eithers) == SequenceFrom(eithers, 1, <<>>)

\* ROA.flatten
RECURSIVE flatten(_)
flatten(arrays) == IF arrays = <<>> THEN <<>> ELSE Head(arrays) \o flatten(Tail(arrays))

\* mutant: the argument order is kept
parseArgArray_NoReverse(scope, args) ==
    LET parsed == sequence([i \in 1..Len(args) |-> parseExpression(scope, args[i])])
    IN  IF parsed.isLeft THEN parsed ELSE Right(flatten(parsed.right))

parseArgArray(scope, args) ==
    LET parsed == sequence([i \in 1..Len(args) |-> parseExpression(scope, args[i])])
    IN  IF parsed.isLeft THEN parsed ELSE Right(flatten(Reverse(parsed.right)))

ArgInit ==
    /\ argNodes \in SeqsUpTo(ArgExpressions, MaxArgs)
    /\ argResult = NotCalled

ArgIdle ==
    /\ argNodes = <<>>
    /\ argResult = NotCalled

ParseArgArray ==
    /\ ~argResult.called
    /\ argResult' = Called(parseArgArray(GlobalScope, argNodes))
    /\ UNCHANGED <<argNodes, codecVars, condVars, compileVars, exprVars, sourceVars, lateVars>>

ArgNext == ParseArgArray

(***************************************************************************)
(* The source file front end: parseSourceFile                              *)
(* A top-level child of the source file, or a declaration of a variable    *)
(* statement: `pos` is its place among the children, `index` its place in  *)
(* the statement; `method` is what parseContractMethod does with a         *)
(* function declaration; `initializers` holds, per declaration of a        *)
(* variable statement, its initializer expression if it has one.           *)
(***************************************************************************)
Decl(kind, hasDeclare, hasEventTag, hasSymbol, method, declarationKind, initializers) ==
    [kind |-> kind, hasDeclare |-> hasDeclare, hasEventTag |-> hasEventTag,
     hasSymbol |-> hasSymbol, method |-> method, declarationKind |-> declarationKind,
     initializers |-> initializers, pos |-> 0, index |-> 0]

WholeLiteral == Node("NumericLiteral", 2, 0, "", <<>>)
FractionLiteral == Node("NumericLiteral", 2, 1, "", <<>>)

TopLevelShapes ==
    {Decl("FunctionDeclaration", FALSE, FALSE, TRUE, m, "", <<>>) : m \in {"ok", "fails"}}
    \cup {Decl("FunctionDeclaration", FALSE, FALSE, FALSE, "ok", "", <<>>)}
    \cup {Decl("FunctionDeclaration", TRUE, t, TRUE, "ok", "", <<>>) : t \in BOOLEAN}
    \cup {Decl("VariableStatement", FALSE, FALSE, TRUE, "", "const", i) :
             i \in {<< <<WholeLiteral>> >>, << <<FractionLiteral>> >>, << <<>> >>,
                    << <<WholeLiteral>>, <<FractionLiteral>> >>,
                    << <<FractionLiteral>>, <<>> >>}}
    \cup {Decl("VariableStatement", FALSE, FALSE, TRUE, "", "let", << <<WholeLiteral>> >>)}
    \cup {Decl("ClassDeclaration", FALSE, FALSE, TRUE, "", "", <<>>)}

EndOfFileToken == Decl("EndOfFileToken", FALSE, FALSE, FALSE, "", "", <<>>)

\* TS.getChildren: the top-level nodes in order, the end-of-file token last
SourceFile(isDeclarationFile, shapes) ==
    [isDeclarationFile |-> isDeclarationFile,
     children |-> [i \in 1..Len(shapes) + 1 |->
                      IF i <= Len(shapes) THEN [shapes[i] EXCEPT !.pos = i]
                      ELSE [EndOfFileToken EXCEPT !.pos = i]]]

SourceFiles ==
    {SourceFile(FALSE, shapes) : shapes \in SeqsUpTo(TopLevelShapes, MaxDecls)}
    \cup {SourceFile(TRUE, <<>>)}

\* node.getDeclarations() of a variable statement
getDeclarations(node) ==
    [i \in 1..Len(node.initializers) |->
        [node EXCEPT !.kind = "VariableDeclaration", !.index = i,
                     !.initializers = <<node.initializers[i]>>]]

SymbolDef(type, decl, constant) == [type |-> type, decl |-> decl, value |-> constant]

\* parseSymbol of a declaration
parseDeclSymbol(node) ==
    IF node.hasSymbol THEN Right(node.pos) ELSE Left(makeParseError(node, "invalid symbol"))

parseSrcFunctionDeclaration(node) ==
    IF node.hasDeclare
    THEN IF ~node.hasEventTag
         THEN Left(makeParseError(node, "only @event declare functions supported"))
         ELSE IF parseDeclSymbol(node).isLeft THEN parseDeclSymbol(node)
              ELSE Right(SymbolDef("EventSymbolDef", node, <<>>))
    ELSE IF parseDeclSymbol(node).isLeft THEN parseDeclSymbol(node)
         ELSE Right(SymbolDef("FunctionSymbolDef", node, <<>>))

parseSrcLetVariableStatement(node) ==
    IF node.declarationKind = "const"
    THEN Left(<<makeParseError(node,
                   "const variable statement passed to parseSrcLetVariableStatement")>>)
    ELSE Left(<<makeParseError(node, "parseSrcVariableStatement not implemented")>>)

\* one declaration of a const statement: initializer, constant value, symbol
parseConstDeclaration(decl) ==
    IF decl.initializers[1] = <<>> THEN Left(makeParseError(decl, "missing initializer"))
    ELSE IF parseConstantValue(decl.initializers[1][1]).isLeft
         THEN parseConstantValue(decl.initializers[1][1])
         ELSE IF parseDeclSymbol(decl).isLeft THEN parseDeclSymbol(decl)
              ELSE Right(SymbolDef("ConstantSymbolDef", decl,
                                   <<parseConstantValue(decl.initializers[1][1]).right>>))

\* ROA.partitionMap(identity): the Left values and the Right values, in order
RECURSIVE Lefts(_)
Lefts(eithers) ==
    IF eithers = <<>> THEN <<>>
    ELSE (IF Head(eithers).isLeft THEN <<Head(eithers).left>> ELSE <<>>) \o Lefts(Tail(eithers))

RECURSIVE Rights(_)
Rights(eithers) ==
    IF eithers = <<>> THEN <<>>
    ELSE (IF Head(eithers).isLeft THEN <<>> ELSE <<Head(eithers).right>>) \o Rights(Tail(eithers))

parseConstVariableStatement(node) ==
    IF node.declarationKind # "const"
    THEN Left(<<makeParseError(node,
                   "non const variable statement passed to parseConstVariableStatement")>>)
    ELSE LET results == [i \in 1..Len(getDeclarations(node)) |->
                            parseConstDeclaration(getDeclarations(node)[i])]
             failures == Lefts(results)
             sources == Rights(results)
         IN  IF Len(failures) > 0 THEN Left(failures) ELSE Right(sources)

parseSrcDeclaration(node) ==
    IF node.kind = "FunctionDeclaration"
    THEN LET def == parseSrcFunctionDeclaration(node)
         IN  IF def.isLeft THEN Left(<<def.left>>) ELSE Right(<<def.right>>)
    ELSE IF node.kind = "VariableStatement"
    THEN IF node.declarationKind = "const"
         THEN parseConstVariableStatement(node)
         ELSE parseSrcLetVariableStatement(node)
    ELSE IF node.kind = "EndOfFileToken" THEN Right(<<>>)
    ELSE Left(<<makeParseError(node, "parseSourceFileSymbols")>>)

\* the loop of parseSrcDeclarations over the children from position i on
RECURSIVE DeclarationsFrom(_, _, _)
DeclarationsFrom(children, i, defs) ==
    IF i > Len(children) THEN Right(defs)
    ELSE LET declared == parseSrcDeclaration(children[i])
         IN  IF declared.isLeft THEN declared
             ELSE DeclarationsFrom(children, i + 1, defs \o declared.right)

parseSrcDeclarations(src) ==
    IF src.isDeclarationFile THEN Right(<<>>) ELSE DeclarationsFrom(src.children, 1, <<>>)

makeParseDiagnostic(error) ==
    [category |-> "Error", messageText |-> error.message, node |-> error.node]

MapDiagnostics(errors) == [i \in 1..Len(errors) |-> makeParseDiagnostic(errors[i])]

isFunctionSymbolDef(def) == def.type = "FunctionSymbolDef"

\* parseContractMethod(scope)(decl): the method of a function, or its errors
parseContractMethod(decl) ==
    IF decl.method = "ok" THEN Right([node |-> decl])
    ELSE Left(<<makeParseError(decl, "cannot translate function")>>)

\* the translation of the function definitions from position i on
RECURSIVE MethodsFrom(_, _, _, _)
MethodsFrom(functions, i, methods, diagnostics) ==
    IF i > Len(functions) THEN [methods |-> methods, diagnostics |-> diagnostics]
    ELSE LET method == parseContractMethod(functions[i].decl)
         IN  IF method.isLeft
             \* pipe(errors, ROA.map(makeParseDiagnostic), ROA.concat(diagnostics))
             THEN MethodsFrom(functions, i + 1, methods,
                              MapDiagnostics(method.left) \o diagnostics)
             ELSE MethodsFrom(functions, i + 1, Append(methods, method.right), diagnostics)

DeclarationFileWarning(src) ==
    [category |-> "Warning", messageText |-> "is a declaration file", node |-> NoNode]

parseSourceFile(src, diagnostics) ==
    IF src.isDeclarationFile
    THEN [methods |-> <<>>, diagnostics |-> Append(diagnostics, DeclarationFileWarning(src))]
    ELSE LET srcDeclsE == parseSrcDeclarations(src)
         IN  IF srcDeclsE.isLeft
             THEN [methods |-> <<>>, diagnostics |-> diagnostics \o MapDiagnostics(srcDeclsE.left)]
             ELSE MethodsFrom(SelectSeq(srcDeclsE.right, isFunctionSymbolDef), 1, <<>>,
                              diagnostics)

PriorDiagnostic == [category |-> "Warning", messageText |-> "reported earlier", node |-> NoNode]

SourceInit ==
    /\ sourceFile \in SourceFiles
    /\ inDiagnostics \in {<<>>, <<PriorDiagnostic>>}
    /\ parsedFile = NotCalled

SourceIdle ==
    /\ sourceFile = SourceFile(TRUE, <<>>)
    /\ inDiagnostics = <<>>
    /\ parsedFile = NotCalled

ParseSourceFile ==
    /\ ~parsedFile.called
    /\ parsedFile' = Called(parseSourceFile(sourceFile, inDiagnostics))
    /\ UNCHANGED <<sourceFile, inDiagnostics, codecVars, condVars, compileVars, exprVars, argVars, lateVars>>

SourceNext == ParseSourceFile

(***************************************************************************)
(* Claims about expression translation (checked under SpecExpr, SpecArg)   *)
(***************************************************************************)
\* the chain parseExpression reduces, and its innermost expression
Chain == makeExpressionChain(exprNode)
Innermost == Chain[1]

\* the reduction steps after which the context holds an error
ErrorSteps == {i \in 1..Len(chainContexts) : chainContexts[i].error # <<>>}
FirstErrorStep == CHOOSE i \in ErrorSteps : \A j \in ErrorSteps : i <= j

\* C13: once a step of the chain reduction records an error, every later
\* reduceExpressionChain call returns the context unchanged, and
\* parseExpression returns that first error and no operations.
C13_FirstErrorWins ==
    /\ \A i, j \in 1..Len(chainContexts) :
           (i < j /\ chainContexts[i].error # <<>>) => chainContexts[j] = chainContexts[i]
    /\ ErrorSteps # {} => chainContexts[FirstErrorStep].error[1].node = Chain[FirstErrorStep]
    /\ (exprResult.called /\ ErrorSteps # {}) =>
           /\ exprResult.returned[1].isLeft
           /\ exprResult.returned[1].left = chainContexts[FirstErrorStep].error[1]
           /\ exprResult.returned[1].right = <<>>

C13_Witness ==
    /\ Len(Chain) = 3 /\ Len(chainContexts) = 3 /\ FirstErrorStep = 1
    /\ Innermost.kind = "Identifier" /\ Innermost.name = "unbound"
    /\ chainContexts[3] = chainContexts[1]
    /\ exprResult.called /\ exprResult.returned[1].isLeft
    /\ exprResult.returned[1].left.node = Innermost

\* the operations of a sequence that push an integer
PushedInts(ops) == {i \in 1..Len(ops) : ops[i].kind = "pushint"}

\* C14: a numeric literal whose value is not a whole number never yields a
\* push-integer: reduceNumericLiteral, parseConstantValue and
\* getConstantValue each produce an error for it, and each produces the
\* integer of exactly the literal's value (the expression translator as a
\* push-integer operation) when the value is whole.
C14_NumericLiteral ==
    /\ (Innermost.kind = "NumericLiteral" /\ Len(chainContexts) >= 1) =>
           IF Innermost.half # 0
           THEN /\ chainContexts[1].error # <<>>
                /\ chainContexts[1].error[1].node = Innermost
                /\ PushedInts(chainContexts[1].ops) = {}
           ELSE /\ chainContexts[1].error = <<>>
                /\ Len(chainContexts[1].ops) = 1
                /\ chainContexts[1].ops[1].kind = "pushint"
                /\ chainContexts[1].ops[1].val = Innermost.value
    /\ (Innermost.kind = "NumericLiteral" /\ Innermost.half # 0 /\ exprResult.called) =>
           exprResult.returned[1].isLeft /\ exprResult.returned[1].right = <<>>
    /\ (exprNode.kind = "NumericLiteral" /\ constResult.called) =>
           IF exprNode.half # 0
           THEN constResult.returned[1].isLeft /\ constResult.returned[1].left.node = exprNode
           ELSE /\ ~constResult.returned[1].isLeft
                /\ constResult.returned[1].right.type = "bigint"
                /\ constResult.returned[1].right.val = exprNode.value
    /\ (exprNode.kind = "NumericLiteral" /\ constValue.called) =>
           IF exprNode.half # 0
           THEN /\ constValue.returned[1].exception.thrown
                /\ constValue.returned[1].exception.node = exprNode
                /\ constValue.returned[1].value = <<>>
           ELSE /\ ~constValue.returned[1].exception.thrown
                /\ constValue.returned[1].value[1].type = "bigint"
                /\ constValue.returned[1].value[1].val = exprNode.value

C14_Witness ==
    /\ exprNode.kind = "NumericLiteral" /\ exprNode.value = 2 /\ exprNode.half = 1
    /\ exprResult.called /\ exprResult.returned[1].isLeft
    /\ constResult.called /\ constResult.returned[1].isLeft
    /\ constValue.called /\ constValue.returned[1].exception.thrown

\* the identifier at the head of the chain: its symbol, the object the scope
\* holds for it, and whether that object yields load operations
HasSymbol == Innermost.name # ""
InScope == Innermost.name \in DOMAIN GlobalScope
HasLoadOps == GlobalScope[Innermost.name].getLoadOps = "right"

\* C15: reduceIdentifier yields an error and adds no operations when the
\* identifier has no symbol, when its symbol is not found in the scope, and
\* when the resolved compile-time object yields no load operations; otherwise
\* the resolved object becomes the context's current object and its load
\* operations are emitted.
C15_Identifier ==
    (Innermost.kind = "Identifier" /\ Len(chainContexts) >= 1) =>
        LET before == InitialChainContext(GlobalScope)
            after == chainContexts[1]
        IN  IF ~HasSymbol \/ ~InScope \/ ~HasLoadOps
            THEN /\ after.error # <<>>
                 /\ after.error[1].node = Innermost
                 /\ after.ops = before.ops
                 /\ after.cto = before.cto
            ELSE /\ after.error = <<>>
                 /\ after.cto = <<GlobalScope[Innermost.name]>>
                 /\ after.ops \in {before.ops \o GlobalScope[Innermost.name].loadOps,
                                   GlobalScope[Innermost.name].loadOps \o before.ops}
                 /\ Len(after.ops) = 2

C15_Witness ==
    /\ exprNode.kind = "Identifier" /\ exprNode.name = "x"
    /\ Len(chainContexts) = 1 /\ chainContexts[1].error = <<>>
    /\ chainContexts[1].cto # <<>> /\ chainContexts[1].cto[1].symbol = "x"
    /\ Len(chainContexts[1].ops) = 2 /\ chainContexts[1].ops[1].kind = "loadstatic"
    /\ exprResult.called /\ ~exprResult.returned[1].isLeft

\* the translation of the i-th argument on its own
ArgParsed(i) == parseExpression(GlobalScope, argNodes[i])
FailingArgs == {i \in 1..Len(argNodes) : ArgParsed(i).isLeft}

\* ops_k ++ ... ++ ops_1
RECURSIVE LastArgFirst(_)
LastArgFirst(k) == IF k = 0 THEN <<>> ELSE ArgParsed(k).right \o LastArgFirst(k - 1)

\* C16: for arguments a1..an whose translations are ops1..opsn, parseArgArray
\* returns opsn ++ ... ++ ops1, each argument's operations in their own
\* order; if an argument fails, the result is the error of the first failing
\* argument in declaration order and no operations.
C16_ArgumentOrder ==
    argResult.called =>
        IF FailingArgs = {}
        THEN argResult.returned[1] = Right(LastArgFirst(Len(argNodes)))
        ELSE LET first == CHOOSE i \in FailingArgs : \A j \in FailingArgs : i <= j
             IN  /\ argResult.returned[1].isLeft
                 /\ argResult.returned[1].left = ArgParsed(first).left
                 /\ argResult.returned[1].right = <<>>

C16_Witness ==
    /\ argResult.called /\ Len(argNodes) = 3
    /\ argNodes[1].kind = "Identifier" /\ argNodes[1].name = "x"
    /\ argNodes[2].kind = "BigIntLiteral" /\ argNodes[3].kind = "StringLiteral"
    /\ ~argResult.returned[1].isLeft
    /\ argResult.returned[1].right =
          <<pushString("s"), pushInt(7), Op(0, "loadstatic", 0, 0), Op(0, "pickitem", 0, 0)>>

(***************************************************************************)
(* Claims about parseSourceFile (checked under SpecSource)                 *)
(***************************************************************************)
\* the positions of the top-level children that fail to parse
FailingChildren ==
    {i \in 1..Len(sourceFile.children) : parseSrcDeclaration(sourceFile.children[i]).isLeft}

\* every diagnostic of the errors of the i-th child is among the returned ones
Reported(i) ==
    LET own == MapDiagnostics(parseSrcDeclaration(sourceFile.children[i]).left)
        out == parsedFile.returned[1].diagnostics
    IN  \A e \in 1..Len(own) : \E d \in 1..Len(out) : out[d] = own[e]

\* the positions of the function declarations that parse to a function
\* definition
ParsedFunctions ==
    {i \in 1..Len(sourceFile.children) :
        /\ sourceFile.children[i].kind = "FunctionDeclaration"
        /\ ~parseSrcDeclaration(sourceFile.children[i]).isLeft
        /\ isFunctionSymbolDef(parseSrcDeclaration(sourceFile.children[i]).right[1])}

\* the i-th child was handed to parseContractMethod: its method or its
\* errors are part of the result
Translated(i) ==
    LET out == parsedFile.returned[1]
        node == sourceFile.children[i]
    IN  IF node.method = "ok"
        THEN \E m \in 1..Len(out.methods) : out.methods[m].node = node
        ELSE \E d \in 1..Len(out.diagnostics) :
                 out.diagnostics[d] = makeParseDiagnostic(parseContractMethod(node).left[1])

\* C12: in parseSourceFile a top-level declaration that fails to parse does
\* not block the other declarations of the file: diagnostics are produced
\* for every failing top-level declaration, and the functions among the
\* successfully parsed declarations are still translated.
C12_FailureDoesNotBlock ==
    (parsedFile.called /\ ~sourceFile.isDeclarationFile) =>
        /\ \A i \in FailingChildren : Reported(i)
        /\ \A i \in ParsedFunctions : Translated(i)

\* the function declarations of the file that parse and translate, in
\* declaration order, as methods
TranslatableMethods ==
    LET translatable(node) ==
            /\ node.kind = "FunctionDeclaration"
            /\ ~parseSrcDeclaration(node).isLeft
            /\ isFunctionSymbolDef(parseSrcDeclaration(node).right[1])
            /\ node.method = "ok"
        kept == SelectSeq(sourceFile.children, translatable)
    IN  [m \in 1..Len(kept) |-> [node |-> kept[m]]]

\* C24: parseSourceFile translates each function declaration of a file
\* independently: the returned methods are exactly the functions that
\* translate successfully, in declaration order; each function that fails
\* contributes its errors to the diagnostics; and every diagnostic passed in
\* is still present in the diagnostics returned.
C24_MethodsAndDiagnostics ==
    (parsedFile.called /\ ~sourceFile.isDeclarationFile) =>
        LET out == parsedFile.returned[1]
        IN  /\ out.methods = TranslatableMethods
            /\ \A i \in ParsedFunctions : Translated(i)
            /\ \A d \in 1..Len(inDiagnostics) :
                   \E e \in 1..Len(out.diagnostics) : out.diagnostics[e] = inDiagnostics[d]

(***************************************************************************)
(* reduceExpressionChain as a function of its two arguments                *)
(***************************************************************************)
\* operation lists a context may hold when a step starts
PriorOps ==
    {<<>>, <<pushInt(7)>>, <<Op(0, "pushbool", 0, TRUE), Op(0, "pushnull", 0, FALSE)>>}

\* contexts handed to a step: with or without an error recorded earlier
PriorContexts ==
    {[InitialChainContext(GlobalScope) EXCEPT !.ops = o, !.error = e] :
        o \in PriorOps,
        e \in {<<>>, <<makeParseError(Node("ThisKeyword", 0, 0, "", <<>>), "not implemented")>>}}

ReduceInit ==
    /\ reduceContext \in PriorContexts
    /\ reduceNode \in Expressions(MaxWraps)
    /\ reduceResult = NotCalled

ReduceIdle ==
    /\ reduceContext = InitialChainContext(GlobalScope)
    /\ reduceNode = NoNode
    /\ reduceResult = NotCalled

ReduceExpressionChain ==
    /\ ~reduceResult.called
    /\ reduceResult' = Called(reduceExpressionChain(reduceContext, reduceNode))
    /\ UNCHANGED <<reduceContext, reduceNode, codecVars, condVars, compileVars, frontVars,
                   callVars, scopeVars, stackItemVars, libraryVars>>

ReduceNext == ReduceExpressionChain

CallArgExpressions ==
    {Node("BigIntLiteral", 7, 0, "", <<>>),
     Node("StringLiteral", 0, 0, "s", <<>>),
     Node("Identifier", 0, 0, "x", <<>>),
     Node("NumericLiteral", 2, 1, "", <<>>),
     Node("Identifier", 0, 0, "unbound", <<>>)}

\* the call expression node, named by the error for a wrong argument count
CallNode == Node("CallExpression", 0, 0, "", <<Node("Identifier", 0, 0, "callContract", <<>>)>>)

\* args.slice(begin, end) with 0-based begin and exclusive end
slice(args, begin, end) ==
    SubSeq(args, begin + 1, IF end < Len(args) THEN end ELSE Len(args))

\* mutant: the first three arguments are translated before the target arguments
parseArguments_CallFirst(scope, args) ==
    LET callArgs == slice(args, 0, 3)
        targetArgs == slice(args, 3, Len(args))
        call == parseArgArray(scope, callArgs)
        target == parseArgArray(scope, targetArgs)
    IN  IF Len(callArgs) # 3 THEN Left(makeParseError(CallNode, "invalid arg count"))
        ELSE IF call.isLeft THEN call
        ELSE IF target.isLeft THEN target
        ELSE Right(target.right
                   \o <<pushInt(Len(targetArgs)), Op(0, "pack", 0, 0)>>
                   \o Append(call.right, Op(0, "syscall", 0, "System.Contract.Call")))

parseArguments(scope, args) ==
    LET callArgs == slice(args, 0, 3)
        targetArgs == slice(args, 3, Len(args))
        target == parseArgArray(scope, targetArgs)
        call == parseArgArray(scope, callArgs)
    IN  IF Len(callArgs) # 3 THEN Left(makeParseError(CallNode, "invalid arg count"))
        ELSE IF target.isLeft THEN target
        ELSE IF call.isLeft THEN call
        \* ROA.concat(call)(target): target followed by call
        ELSE Right((target.right \o <<pushInt(Len(targetArgs)), Op(0, "pack", 0, 0)>>)
                   \o Append(call.right, Op(0, "syscall", 0, "System.Contract.Call")))

CallInit ==
    /\ callArguments \in SeqsUpTo(CallArgExpressions, MaxCallArgs)
    /\ callResult = NotCalled

CallIdle ==
    /\ callArguments = <<>>
    /\ callResult = NotCalled

ParseArguments ==
    /\ ~callResult.called
    /\ callResult' = Called(parseArguments(GlobalScope, callArguments))
    /\ UNCHANGED <<callArguments, codecVars, condVars, compileVars, frontVars,
                   reduceVars, scopeVars, stackItemVars, libraryVars>>

CallNext == ParseArguments

\* the translation of the i-th argument of the call on its own
CallArgParsed(i) == parseExpression(GlobalScope, callArguments[i])
FailingCallArgs(lo, hi) == {i \in lo..hi : CallArgParsed(i).isLeft}

\* ops_hi ++ ... ++ ops_lo
RECURSIVE Descending(_, _)
Descending(hi, lo) ==
    IF hi < lo THEN <<>> ELSE CallArgParsed(hi).right \o Descending(hi - 1, lo)

\* C30: called with a1, a2, a3, t1..tm, callContract emits the operations of
\* tm down to t1, push-integer m, pack, the operations of a3, a2, a1 and the
\* syscall System.Contract.Call; with fewer than three arguments it returns
\* the error "invalid arg count" and no operations; if a target argument and
\* one of the first three both fail, the target argument's error is returned.
C30_CallContract ==
    callResult.called =>
        LET n == Len(callArguments)
            out == callResult.returned[1]
        IN  IF n < 3
            THEN /\ out.isLeft /\ out.left.message = "invalid arg count" /\ out.right = <<>>
            ELSE IF FailingCallArgs(1, n) = {}
            THEN /\ ~out.isLeft
                 /\ out.right = Descending(n, 4)
                                \o <<Op(0, "pushint", 0, n - 3), Op(0, "pack", 0, 0)>>
                                \o Descending(3, 1)
                                \o <<Op(0, "syscall", 0, "System.Contract.Call")>>
            ELSE /\ out.isLeft /\ out.right = <<>>
                 /\ FailingCallArgs(4, n) # {} =>
                        \E i \in FailingCallArgs(4, n) : out.left = CallArgParsed(i).left
                 /\ FailingCallArgs(4, n) = {} =>
                        \E i \in FailingCallArgs(1, 3) : out.left = CallArgParsed(i).left

C30_Witness ==
    /\ callResult.called /\ Len(callArguments) = 5
    /\ callArguments[1].kind = "BigIntLiteral" /\ callArguments[2].kind = "StringLiteral"
    /\ callArguments[3].name = "x" /\ callArguments[4].name = "x"
    /\ callArguments[5].kind = "BigIntLiteral"
    /\ ~callResult.returned[1].isLeft
    /\ callResult.returned[1].right =
          <<pushInt(7), Op(0, "loadstatic", 0, 0), Op(0, "pickitem", 0, 0),
            pushInt(2), Op(0, "pack", 0, 0),
            Op(0, "loadstatic", 0, 0), Op(0, "pickitem", 0, 0), pushString("s"), pushInt(7),
            Op(0, "syscall", 0, "System.Contract.Call")>>

(***************************************************************************)
(* Built-in definitions: checkErrors, StackItemDef, makeGlobalScope        *)
(***************************************************************************)
\* the outcome of code that either throws an Error or returns a value
ThrownError(message, errors) ==
    [thrown |-> TRUE, message |-> message, errors |-> errors, returned |-> <<>>]
ReturnedValue(r) == [thrown |-> FALSE, message |-> "", errors |-> <<>>, returned |-> <<r>>]

\* checkErrors: throws errorMessage with all the errors joined, else the values
checkErrors(errorMessage, results) ==
    IF Len(Lefts(results)) > 0 THEN ThrownError(errorMessage, Lefts(results))
    ELSE ReturnedValue(Rights(results))

MemberKinds == {"PropertySignature", "MethodSignature", "CallSignature"}

\* an interface declaration tagged @stackitem: its members in declaration
\* order and the number of properties of its type
StackItemDecls ==
    {[name |-> "Token", tag |-> "stackitem", members |-> m, properties |-> p] :
        m \in SeqsUpTo(MemberKinds, MaxMembers), p \in 0..MaxMembers}

StackItemPropertyDef(sig, index) ==
    [sig |-> sig, index |-> index, loadOps |-> <<pushInt(index), Op(0, "pickitem", 0, 0)>>]

\* mutant: the members are numbered from one
StackItemDef_OneBased(decl) ==
    IF decl.properties # Len(decl.members) THEN ThrownError("invalid @stackitem", <<decl.name>>)
    ELSE LET props == checkErrors("Invalid stack item members",
                 [i \in 1..Len(decl.members) |->
                     IF decl.members[i] = "PropertySignature"
                     THEN Right(StackItemPropertyDef(decl.members[i], i))
                     ELSE Left(decl.members[i])])
         IN  IF props.thrown THEN props
             ELSE ReturnedValue([name |-> decl.name, def |-> "StackItemDef",
                            props |-> props.returned[1]])

\* the constructor of StackItemDef; mapWithIndex counts from zero
StackItemDef(decl) ==
    IF decl.properties # Len(decl.members) THEN ThrownError("invalid @stackitem", <<decl.name>>)
    ELSE LET props == checkErrors("Invalid stack item members",
                 [i \in 1..Len(decl.members) |->
                     IF decl.members[i] = "PropertySignature"
                     THEN Right(StackItemPropertyDef(decl.members[i], i - 1))
                     ELSE Left(decl.members[i])])
         IN  IF props.thrown THEN props
             ELSE ReturnedValue([name |-> decl.name, def |-> "StackItemDef",
                            props |-> props.returned[1]])

NoDecl == [name |-> "", tag |-> "", members |-> <<>>, properties |-> 0]

StackItemInit ==
    /\ stackItemDecl \in StackItemDecls
    /\ stackItemResult = NotCalled

StackItemIdle ==
    /\ stackItemDecl = NoDecl
    /\ stackItemResult = NotCalled

NewStackItemDef ==
    /\ ~stackItemResult.called
    /\ stackItemResult' = Called(StackItemDef(stackItemDecl))
    /\ UNCHANGED <<stackItemDecl, codecVars, condVars, compileVars, frontVars,
                   reduceVars, callVars, scopeVars, libraryVars>>

StackItemNext == NewStackItemDef

\* C23: for a stack-item interface with n members the member declared at
\* position i (0-based) gets the index i and the load operations
\* [push-integer i, pick-item]; the indexes are exactly 0..n-1 without
\* duplicates; construction fails with an error and produces no definition if
\* a member is not a property signature or if the type's property count
\* differs from the declared member count.
C23_StackItemIndexes ==
    stackItemResult.called =>
        LET decl == stackItemDecl
            n == Len(decl.members)
            out == stackItemResult.returned[1]
        IN  IF \/ \E i \in 1..n : decl.members[i] # "PropertySignature"
               \/ decl.properties # n
            THEN out.thrown /\ out.returned = <<>>
            ELSE /\ ~out.thrown
                 /\ Len(out.returned[1].props) = n
                 /\ \A i \in 1..n :
                        /\ out.returned[1].props[i].index = i - 1
                        /\ out.returned[1].props[i].loadOps =
                              <<Op(0, "pushint", 0, i - 1), Op(0, "pickitem", 0, 0)>>
                 /\ {out.returned[1].props[i].index : i \in 1..n} = 0..(n - 1)

C23_Witness ==
    /\ stackItemResult.called
    /\ stackItemDecl.members = <<"PropertySignature", "PropertySignature", "PropertySignature">>
    /\ stackItemDecl.properties = 3
    /\ ~stackItemResult.returned[1].thrown
    /\ stackItemResult.returned[1].returned[1].props[3].loadOps =
          <<pushInt(2), Op(0, "pickitem", 0, 0)>>

\* the built-in tables of makeGlobalScope, keys in record order, each with
\* the constructor its entry applies to the declaration found
builtInEnums == <<[key |-> "CallFlags", def |-> "EnumSymbolDef"]>>
builtInFunctions == <<[key |-> "callContract", def |-> "CallContractFunctionDef"]>>
builtInInterfaces ==
    <<[key |-> "ByteStringConstructor", def |-> "ByteStringConstructorDef"],
      [key |-> "ReadonlyStorageContext", def |-> "SysCallInterfaceDef"],
      [key |-> "RuntimeConstructor", def |-> "SysCallInterfaceDef"],
      [key |-> "StorageConstructor", def |-> "SysCallInterfaceDef"],
      [key |-> "StorageContext", def |-> "SysCallInterfaceDef"]>>
builtInVars ==
    <<[key |-> "ByteString", def |-> "StaticClassDef"],
      [key |-> "Error", def |-> "CallableVariableDef"],
      [key |-> "Runtime", def |-> "StaticClassDef"],
      [key |-> "Storage", def |-> "StaticClassDef"]>>

LibDecl(name, tag) == [name |-> name, tag |-> tag, members |-> <<>>, properties |-> 0]

\* the declarations of the given table that the library declares, in table order
RECURSIVE DeclaredOf(_, _)
DeclaredOf(table, present) ==
    IF table = <<>> THEN <<>>
    ELSE (IF Head(table).key \in present THEN <<LibDecl(Head(table).key, "")>> ELSE <<>>)
         \o DeclaredOf(Tail(table), present)

BuiltInNames ==
    UNION {{t[i].key : i \in 1..Len(t)} :
              t \in {builtInEnums, builtInFunctions, builtInInterfaces, builtInVars}}

\* library declarations: any subset of the built-in names is declared, and
\* any of four well-formed tagged declarations
LibraryDeclarations ==
    {[enums |-> DeclaredOf(builtInEnums, present),
      functions |-> (IF "syscall" \in tags THEN <<LibDecl("burnGas", "syscall")>> ELSE <<>>)
                    \o (IF "operation" \in tags THEN <<LibDecl("concat", "operation")>> ELSE <<>>)
                    \o DeclaredOf(builtInFunctions, present),
      interfaces |-> (IF "stackitem" \in tags
                      THEN <<[name |-> "Token", tag |-> "stackitem",
                              members |-> <<"PropertySignature", "PropertySignature">>,
                              properties |-> 2]>>
                      ELSE <<>>)
                     \o DeclaredOf(builtInInterfaces, present),
      variables |-> (IF "nativeContract" \in tags
                     THEN <<LibDecl("Ledger", "nativeContract")>> ELSE <<>>)
                    \o DeclaredOf(builtInVars, present)] :
        present \in SUBSET BuiltInNames,
        tags \in SUBSET {"stackitem", "nativeContract", "syscall", "operation"}}

\* ROA.filter(TS.hasTag(tag))
RECURSIVE WithTag(_, _)
WithTag(declarations, tag) ==
    IF declarations = <<>> THEN <<>>
    ELSE (IF Head(declarations).tag = tag THEN <<Head(declarations)>> ELSE <<>>)
         \o WithTag(Tail(declarations), tag)

RECURSIVE findDecls(_, _)
findDecls(declarations, name) ==
    IF declarations = <<>> THEN <<>>
    ELSE (IF Head(declarations).name = name THEN <<Head(declarations)>> ELSE <<>>)
         \o findDecls(Tail(declarations), name)

\* single: the one element of an array of length one, as an Option
single(array) == IF Len(array) = 1 THEN array ELSE <<>>

findDecl(declarations, name) == single(findDecls(declarations, name))

BuiltInDef(entry) == [name |-> entry.key, def |-> entry.def, props |-> <<>>]

\* mutant: only the first unresolved name is reported
resolveBuiltins_FirstError(table, declarations, symbolDefs) ==
    LET defs == sequence([i \in 1..Len(table) |->
                    IF findDecl(declarations, table[i].key) = <<>>
                    THEN Left(table[i].key)
                    ELSE Right(BuiltInDef(table[i]))])
    IN  IF defs.isLeft THEN ThrownError("unresolved built in variables", <<defs.left>>)
        ELSE ReturnedValue(symbolDefs \o defs.right)

resolveBuiltins(table, declarations, symbolDefs) ==
    LET defs == checkErrors("unresolved built in variables",
                    [i \in 1..Len(table) |->
                        IF findDecl(declarations, table[i].key) = <<>>
                        THEN Left(table[i].key)
                        ELSE Right(BuiltInDef(table[i]))])
    IN  IF defs.thrown THEN defs
        \* ROA.concat(defs)(symbolDefs): symbolDefs followed by defs
        ELSE ReturnedValue(symbolDefs \o defs.returned[1])

\* the definitions made from the tagged declarations, later groups in front
TaggedDef(decl, def) == [name |-> decl.name, def |-> def, props |-> <<>>]
TaggedDefs(decls) ==
    LET stackItems == WithTag(decls.interfaces, "stackitem")
        natives == WithTag(decls.variables, "nativeContract")
        syscalls == WithTag(decls.functions, "syscall")
        operations == WithTag(decls.functions, "operation")
    IN  [i \in 1..Len(operations) |-> TaggedDef(operations[i], "OperationsFunctionDef")]
        \o [i \in 1..Len(syscalls) |-> TaggedDef(syscalls[i], "SysCallFunctionDef")]
        \o [i \in 1..Len(natives) |-> TaggedDef(natives[i], "NativeContractConstructorDef")]
        \o [i \in 1..Len(stackItems) |-> StackItemDef(stackItems[i]).returned[1]]

createScope(symbolDefs) ==
    [parentScope |-> <<>>, symbols |-> {symbolDefs[i] : i \in 1..Len(symbolDefs)}]

makeGlobalScope(decls, diagnostics) ==
    LET stackItems == WithTag(decls.interfaces, "stackitem")
        failed == {i \in 1..Len(stackItems) : StackItemDef(stackItems[i]).thrown}
        enums == resolveBuiltins(builtInEnums, decls.enums, TaggedDefs(decls))
        functions == resolveBuiltins(builtInFunctions, decls.functions, enums.returned[1])
        interfaces == resolveBuiltins(builtInInterfaces, decls.interfaces, functions.returned[1])
        variables == resolveBuiltins(builtInVars, decls.variables, interfaces.returned[1])
    IN  IF failed # {}
        THEN StackItemDef(stackItems[CHOOSE i \in failed : \A j \in failed : i <= j])
        ELSE IF enums.thrown THEN enums
        ELSE IF functions.thrown THEN functions
        ELSE IF interfaces.thrown THEN interfaces
        ELSE IF variables.thrown THEN variables
        ELSE ReturnedValue(<<createScope(variables.returned[1]), diagnostics>>)

NoLibraryDecls == [enums |-> <<>>, functions |-> <<>>, interfaces |-> <<>>, variables |-> <<>>]

ScopeInit ==
    /\ libraryDecls \in LibraryDeclarations
    /\ scopeDiagnostics = <<PriorDiagnostic>>
    /\ scopeResult = NotCalled

ScopeIdle ==
    /\ libraryDecls = NoLibraryDecls
    /\ scopeDiagnostics = <<>>
    /\ scopeResult = NotCalled

MakeGlobalScope ==
    /\ ~scopeResult.called
    /\ scopeResult' = Called(makeGlobalScope(libraryDecls, scopeDiagnostics))
    /\ UNCHANGED <<libraryDecls, scopeDiagnostics, codecVars, condVars, compileVars,
                   frontVars, reduceVars, callVars, stackItemVars, libraryVars>>

ScopeNext == MakeGlobalScope

\* the built-in tables with the declaration list each is resolved against
BuiltInTables ==
    <<[table |-> builtInEnums, decls |-> libraryDecls.enums],
      [table |-> builtInFunctions, decls |-> libraryDecls.functions],
      [table |-> builtInInterfaces, decls |-> libraryDecls.interfaces],
      [table |-> builtInVars, decls |-> libraryDecls.variables]>>

\* the names of the t-th table without a declaration in the library
Unresolved(t) ==
    {BuiltInTables[t].table[i].key : i \in 1..Len(BuiltInTables[t].table)}
        \ {BuiltInTables[t].decls[i].name : i \in 1..Len(BuiltInTables[t].decls)}

FilePaths == 1..MaxFiles
ReferenceNames == 0..MaxFiles

\* a library file: its lib and types reference directives and its global
\* module declaration: none, one with a body, or one without
LibraryFiles ==
    [libs : SeqsUpTo(ReferenceNames, 1), types : {<<>>}, module : {"none", "body", "nobody"}]

\* the lib and types compiler options of the project
CompilerOptions == [lib : SeqsUpTo(ReferenceNames, 1), types : SeqsUpTo(ReferenceNames, 1)]

resolveLib(lib) ==
    IF lib \in FilePaths THEN Right(lib) ELSE Left([name |-> lib, what |-> "library"])
resolveTypes(types) ==
    IF types \in FilePaths THEN Right(types) ELSE Left([name |-> types, what |-> "types"])

\* mutant: the types references are not resolved
resolveReferences_LibsOnly(libs, types) ==
    [i \in 1..Len(libs) |-> resolveLib(libs[i])]

\* ROA.concat(resolvedLibs)(resolbedTypes): the types results, then the libs results
resolveReferences(libs, types) ==
    [i \in 1..Len(types) |-> resolveTypes(types[i])]
        \o [i \in 1..Len(libs) |-> resolveLib(libs[i])]

\* parseDeclarations of the children of a file, and of its global module body
parseDeclarations(path, where) == <<[file |-> path, where |-> where]>>

\* libDeclMonoid.concat
libDeclConcat(x, y) == x \o y

\* parseLibrarySourceFile(resolver)(src)(declarations): <<results, declarations>>
parseLibrarySourceFile(files, src, declarations) ==
    LET childDecls == parseDeclarations(src, "file")
    IN  IF files[src].module = "nobody"
        THEN <<<<Left([name |-> src, what |-> "global module"])>>, declarations>>
        ELSE <<resolveReferences(files[src].libs, files[src].types),
               libDeclConcat(IF files[src].module = "body"
                             THEN libDeclConcat(childDecls, parseDeclarations(src, "global"))
                             ELSE childDecls,
                             declarations)>>

\* mutant: the visited set is never consulted
elem_Never(path, parsed) == FALSE

\* ROS.elem
elem(path, parsed) == path \in parsed

\* mutant: the head stays in the worklist
tail_KeepsHead(sources) == sources

\* RNEA.tail
tail(sources) == Tail(sources)

createDiagnostic(failure) == [category |-> "Error", messageText |-> failure, node |-> NoNode]

LibraryInit ==
    /\ libFiles \in [FilePaths -> LibraryFiles]
    /\ libOptions \in CompilerOptions
    /\ libDiagnostics = <<PriorDiagnostic>>
    /\ libPc = "start"
    /\ libSources = <<>>
    /\ libFailures = <<>>
    /\ libParsed = {}
    /\ libDeclarations = <<>>
    /\ libParseLog = <<>>
    /\ libResult = NotCalled

LibraryIdle ==
    /\ libFiles = <<>>
    /\ libOptions = [lib |-> <<>>, types |-> <<>>]
    /\ libDiagnostics = <<>>
    /\ libPc = "idle"
    /\ libSources = <<>>
    /\ libFailures = <<>>
    /\ libParsed = {}
    /\ libDeclarations = <<>>
    /\ libParseLog = <<>>
    /\ libResult = NotCalled

otherThanLibrary == <<codecVars, condVars, compileVars, frontVars,
                      reduceVars, callVars, scopeVars, stackItemVars>>

\* lines 516-523: the references of the compiler options are resolved
ResolveOptions ==
    /\ libPc = "start"
    /\ LET resolved == resolveReferences(libOptions.lib, libOptions.types)
       IN  /\ libFailures' = Lefts(resolved)
           /\ libSources' = Rights(resolved)
    /\ libParsed' = {}
    /\ libDeclarations' = <<>>
    /\ libPc' = "loop"
    /\ UNCHANGED <<libFiles, libOptions, libDiagnostics, libParseLog, libResult, otherThanLibrary>>

\* lines 527-531: the head of the worklist was visited before
SkipParsed ==
    /\ libPc = "loop"
    /\ libSources # <<>>
    /\ elem(Head(libSources), libParsed)
    /\ libSources' = tail(libSources)
    /\ UNCHANGED <<libFiles, libOptions, libDiagnostics, libPc, libFailures, libParsed,
                   libDeclarations, libParseLog, libResult, otherThanLibrary>>

\* lines 527-539: the head of the worklist is parsed
ParseHead ==
    /\ libPc = "loop"
    /\ libSources # <<>>
    /\ ~elem(Head(libSources), libParsed)
    /\ LET head == Head(libSources)
           out == parseLibrarySourceFile(libFiles, head, libDeclarations)
       IN  /\ libParsed' = libParsed \cup {head}
           /\ libDeclarations' = out[2]
           /\ libFailures' = libFailures \o Lefts(out[1])
           /\ libSources' = tail(libSources) \o Rights(out[1])
           \* history: the paths handed to parseLibrarySourceFile, in order
           /\ libParseLog' = Append(libParseLog, head)
    /\ UNCHANGED <<libFiles, libOptions, libDiagnostics, libPc, libResult, otherThanLibrary>>

\* line 542: the worklist is empty
ReturnLibrary ==
    /\ libPc = "loop"
    /\ libSources = <<>>
    /\ libResult' = Called(<<libDeclarations,
                             libDiagnostics \o [i \in 1..Len(libFailures) |->
                                                  createDiagnostic(libFailures[i])]>>)
    /\ libPc' = "returned"
    /\ UNCHANGED <<libFiles, libOptions, libDiagnostics, libSources, libFailures, libParsed,
                   libDeclarations, libParseLog, otherThanLibrary>>

LibraryNext == ResolveOptions \/ SkipParsed \/ ParseHead \/ ReturnLibrary

(***************************************************************************)
(* Claims about parseProjectLibrary (checked under SpecLibrary)            *)
(***************************************************************************)
\* the head of the worklist is a file that was visited before
HeadVisited == libPc = "loop" /\ libSources # <<>> /\ Head(libSources) \in libParsed

\* C25: in the worklist loop each library source file, identified by its
\* path, is parsed at most once, however many files reference it and however
\* often it is queued; a queued file whose path is already in the visited set
\* is dropped without changing the accumulated declarations or failures.
C25_ParsedOnce ==
    /\ [](\A i, j \in 1..Len(libParseLog) : libParseLog[i] = libParseLog[j] => i = j)
    /\ [][HeadVisited => /\ libSources' = Tail(libSources)
                         /\ libParseLog' = libParseLog
                         /\ libDeclarations' = libDeclarations
                         /\ libFailures' = libFailures]_vars

C25_Witness ==
    /\ libPc = "returned"
    /\ libOptions.lib = <<1>> /\ libOptions.types = <<1>>
    /\ libFiles[1].libs = <<1>>
    /\ libParseLog = <<1>>

\* C26: parseProjectLibrary terminates for every finite set of library
\* files, also when their reference directives form a cycle or a file
\* references itself: the worklist becomes empty and the function returns.
C26_Terminates == <>(libPc = "returned")

C26_Witness ==
    /\ libPc = "returned"
    /\ libOptions.lib = <<1>>
    /\ libFiles[1].libs = <<2>> /\ libFiles[2].libs = <<1>>
    /\ libFiles[1].module # "nobody" /\ libFiles[2].module # "nobody"
    /\ libParseLog = <<1, 2>>

\* the files that reference names resolve to
Targets(names) == {names[i] : i \in 1..Len(names)} \cap FilePaths
Unresolvable(names) == {i \in 1..Len(names) : names[i] \notin FilePaths}

\* the files reachable from the compiler options through resolvable
\* references of files without a body-less global module
RECURSIVE ReachableFrom(_)
ReachableFrom(found) ==
    LET more == found \cup UNION {Targets(libFiles[f].libs) \cup Targets(libFiles[f].types) :
                                    f \in {g \in found : libFiles[g].module # "nobody"}}
    IN  IF more = found THEN found ELSE ReachableFrom(more)

Reachable == ReachableFrom(Targets(libOptions.lib) \cup Targets(libOptions.types))

\* C27: a reference that cannot be resolved is recorded as a failure and
\* does not stop the loop: every file reachable from the configured libs and
\* types through resolvable references is parsed and its declarations are in
\* the result, provided no file on the path has a global module declaration
\* without a body; the diagnostics returned are the diagnostics passed in
\* followed by one diagnostic per recorded failure.
C27_UnresolvedDoesNotStop ==
    libResult.called =>
        LET declarations == libResult.returned[1][1]
            diagnostics == libResult.returned[1][2]
            reachable == Reachable
            good == {f \in reachable : libFiles[f].module # "nobody"}
        IN  /\ \A f \in reachable : \E i \in 1..Len(libParseLog) : libParseLog[i] = f
            /\ \A f \in good : \E i \in 1..Len(declarations) :
                   declarations[i] = [file |-> f, where |-> "file"]
            /\ \A i \in Unresolvable(libOptions.lib) :
                   \E k \in 1..Len(libFailures) :
                       libFailures[k] = [name |-> libOptions.lib[i], what |-> "library"]
            /\ \A i \in Unresolvable(libOptions.types) :
                   \E k \in 1..Len(libFailures) :
                       libFailures[k] = [name |-> libOptions.types[i], what |-> "types"]
            /\ \A f \in good : \A i \in Unresolvable(libFiles[f].libs) :
                   \E k \in 1..Len(libFailures) :
                       libFailures[k] = [name |-> libFiles[f].libs[i], what |-> "library"]
            /\ Len(diagnostics) = Len(libDiagnostics) + Len(libFailures)
            /\ SubSeq(diagnostics, 1, Len(libDiagnostics)) = libDiagnostics
            /\ \A k \in 1..Len(libFailures) :
                   diagnostics[Len(libDiagnostics) + k].messageText = libFailures[k]

C27_Witness ==
    /\ libResult.called
    /\ libOptions.lib = <<0>> /\ libOptions.types = <<1>>
    /\ libFiles[1].libs = <<2>> /\ libFiles[1].module = "body"
    /\ libFiles[2].libs = <<0>> /\ libFiles[2].module = "none"
    /\ libParseLog = <<1, 2>>
    /\ Len(libResult.returned[1][2]) = 3

(***************************************************************************)
(* Specifications                                                          *)
(***************************************************************************)
FrontIdle == ExprIdle /\ ArgIdle /\ SourceIdle
EarlyIdle == CodecIdle /\ CondIdle /\ CompileIdle /\ FrontIdle
LateIdle == ReduceIdle /\ CallIdle /\ ScopeIdle /\ StackItemIdle /\ LibraryIdle
InitCodec == CodecInit /\ CondIdle /\ CompileIdle /\ FrontIdle /\ LateIdle
InitCond == CodecIdle /\ CondInit /\ CompileIdle /\ FrontIdle /\ LateIdle
InitCompile == CodecIdle /\ CondIdle /\ CompileInit /\ FrontIdle /\ LateIdle
InitExpr == CodecIdle /\ CondIdle /\ CompileIdle /\ ExprInit /\ ArgIdle /\ SourceIdle /\ LateIdle
InitArg == CodecIdle /\ CondIdle /\ CompileIdle /\ ExprIdle /\ ArgInit /\ SourceIdle /\ LateIdle
InitSource == CodecIdle /\ CondIdle /\ CompileIdle /\ ExprIdle /\ ArgIdle /\ SourceInit /\ LateIdle
InitReduce ==
    EarlyIdle /\ ReduceInit /\ CallIdle /\ ScopeIdle /\ StackItemIdle /\ LibraryIdle
InitCall ==
    EarlyIdle /\ ReduceIdle /\ CallInit /\ ScopeIdle /\ StackItemIdle /\ LibraryIdle
InitScope ==
    EarlyIdle /\ ReduceIdle /\ CallIdle /\ ScopeInit /\ StackItemIdle /\ LibraryIdle
InitStackItem ==
    EarlyIdle /\ ReduceIdle /\ CallIdle /\ ScopeIdle /\ StackItemInit /\ LibraryIdle
InitLibrary ==
    EarlyIdle /\ ReduceIdle /\ CallIdle /\ ScopeIdle /\ StackItemIdle /\ LibraryInit

SpecCodec == InitCodec /\ [][CodecNext]_vars
SpecCond == InitCond /\ [][CondNext]_vars
\* the stack machine runs a started program to its end
SpecCondFair == SpecCond /\ WF_vars(Step)
SpecCompile == InitCompile /\ [][CompileNext]_vars
SpecExpr == InitExpr /\ [][ExprNext]_vars
SpecArg == InitArg /\ [][ArgNext]_vars
SpecSource == InitSource /\ [][SourceNext]_vars
SpecReduce == InitReduce /\ [][ReduceNext]_vars
SpecCall == InitCall /\ [][CallNext]_vars
SpecScope == InitScope /\ [][ScopeNext]_vars
SpecStackItem == InitStackItem /\ [][StackItemNext]_vars
SpecLibrary == InitLibrary /\ [][LibraryNext]_vars
\* parseProjectLibrary runs without interruption: its loop keeps stepping
SpecLibraryFair == SpecLibrary /\ WF_vars(LibraryNext)

Init == InitCodec
Next == CodecNext
Spec == SpecCodec

====
